---- MODULE Spec2Model ----
(***************************************************************************)
(* Model of the anomaly scanner of medicaid-fraud-hunter                   *)
(* (src/scanner/anomalies.py): the four detectors and scan_all; of the     *)
(* dossier builder (src/profiler/dossier.py); of preprocess                *)
(* (src/data/loader.py); and of the scan and profile commands (src/cli.py).*)
(*                                                                         *)
(* Representation.                                                         *)
(*   - A polars DataFrame is a sequence of row records, in row order, and  *)
(*     the set of its column names; a row has the fields of the columns.   *)
(*   - Paid amounts are integers (whole dollars); claim and row counts     *)
(*     are naturals.                                                       *)
(*   - The floats the scanner computes (severity, overall_score, the       *)
(*     ratios, median and MAD) are IEEE 754 doubles, and every operation   *)
(*     on them rounds as the hardware does. The rounded numbers of the     *)
(*     dossier are exact rationals <<num, den>> in lowest terms with       *)
(*     den > 0, rounded as round() rounds the double.                      *)
(*   - A dict[str, list[RedFlag]] is a function whose DOMAIN is the set    *)
(*     of keys and whose values are sequences of RedFlag records.          *)
(*   - The description string of a RedFlag is not modelled; its evidence   *)
(*     mapping is.                                                         *)
(***************************************************************************)
EXTENDS Integers, Sequences, FiniteSets, TLC

VARIABLES
    monthly_df,         \* the MonthlyAggregate table that scan_all loads
    procedure_df,       \* the ProcedureAmountAggregate table that scan_all loads
    volume_flags,       \* result of a direct call of _detect_volume_impossibility
    revenue_flags,      \* result of a direct call of _detect_revenue_outliers
    spike_flags,        \* result of a direct call of _detect_billing_spikes
    consistency_flags,  \* result of a direct call of _detect_suspicious_consistency
    runs,               \* the scan_all calls made on the two tables as they are:
                        \* {[threshold, error, results], ...}
    claims_file,        \* input: the dataset that preprocess and build_dossier read
    dossier,            \* result of a call of build_dossier
    monthly_columns,    \* the column names of the MonthlyAggregate table
    procedure_columns,  \* the column names of the ProcedureAmountAggregate table
    rounds_up,          \* the providers whose peer z-score lies above the exact value
    preprocessed,       \* result of a call of preprocess
    summaries_exist,    \* the two files that preprocess writes exist
    scan_csv            \* output/scan_results.csv

vars == <<monthly_df, procedure_df, volume_flags, revenue_flags,
          spike_flags, consistency_flags, runs, claims_file, dossier,
          monthly_columns, procedure_columns, rounds_up, preprocessed,
          summaries_exist, scan_csv>>

----------------------------------------------------------------------------
(* Rational arithmetic, for the dossier's numbers and the claims' values.  *)

Abs(x) == IF x < 0 THEN -x ELSE x

RECURSIVE Gcd(_, _)
Gcd(a, b) == IF b = 0 THEN a ELSE Gcd(b, a % b)

\* n/d in lowest terms with a positive denominator (d # 0).
Rat(n, d) ==
    LET Over(g, s) == <<(s * n) \div g, (s * d) \div g>>
    IN  Over(Gcd(Abs(n), Abs(d)), IF d < 0 THEN -1 ELSE 1)

RInt(n) == <<n, 1>>

\* Products are reduced crosswise first so that intermediate values stay small.
RMul(p, q) ==
    LET Cross(a, b) == <<a[1] * b[1], a[2] * b[2]>>
    IN  Cross(Rat(p[1], q[2]), Rat(q[1], p[2]))

RDiv(p, q) == RMul(p, IF q[1] < 0 THEN <<-q[2], -q[1]>> ELSE <<q[2], q[1]>>)

RAdd(p, q) ==
    LET Over(g) == Rat(p[1] * (q[2] \div g) + q[1] * (p[2] \div g), (p[2] \div g) * q[2])
    IN  Over(Gcd(p[2], q[2]))

RSub(p, q) == RAdd(p, <<-q[1], q[2]>>)

RAbs(p) == <<Abs(p[1]), p[2]>>

\* p <= q, decided by comparing the integer parts and then, inverted, the
\* fractional parts, so that no product of large numbers is formed.
RECURSIVE RLeq(_, _)
RLeq(p, q) ==
    LET Parts(fp, fq, rp, rq) ==
            IF fp # fq THEN fp < fq
            ELSE IF rp = 0 THEN TRUE
            ELSE IF rq = 0 THEN FALSE
            ELSE RLeq(<<q[2], rq>>, <<p[2], rp>>)
    IN  Parts(p[1] \div p[2], q[1] \div q[2], p[1] % p[2], q[1] % q[2])

RZero == <<0, 1>>

\* b > 0 is a power of two.
RECURSIVE IsPowerOfTwo(_)
IsPowerOfTwo(b) == IF b % 2 = 1 THEN b = 1 ELSE IsPowerOfTwo(b \div 2)

\* The largest k with 2^k <= n, for n >= 1.
RECURSIVE FloorLog2(_)
FloorLog2(n) == IF n < 2 THEN 0 ELSE 1 + FloorLog2(n \div 2)

\* The least k with a * 2^k >= b, for a > 0.
RECURSIVE DoublingsToReach(_, _)
DoublingsToReach(a, b) == IF a >= b THEN 0 ELSE 1 + DoublingsToReach(2 * a, b)

RECURSIVE TwoToThe(_)
TwoToThe(k) ==
    LET Square(h) == h * h
    IN  IF k = 0 THEN 1
        ELSE IF k % 2 = 1 THEN 2 * TwoToThe(k - 1)
        ELSE Square(TwoToThe(k \div 2))

\* The binary exponent e of a/b > 0: 2^e <= a/b < 2^(e+1).
BinaryExponent(a, b) == IF a >= b THEN FloorLog2(a \div b) ELSE -DoublingsToReach(a, b)

\* s further bits of the quotient of a long division by b that has reached
\* the quotient q, kept modulo 512, and the remainder r; four bits in a step.
RECURSIVE DivideBits(_, _, _, _)
DivideBits(q, r, b, s) ==
    LET Step(bits, n) == DivideBits((q * TwoToThe(bits) + n \div b) % 512, n % b, b, s - bits)
    IN  IF s = 0 THEN [q |-> q, r |-> r]
        ELSE IF s < 4 THEN Step(s, r * TwoToThe(s))
        ELSE Step(4, r * 16)

\* The double nearest a/b, for a/b > 0 in lowest terms and b no power of two,
\* is m / 2^s with m of 53 bits: low is m modulo 512, and rho is
\* m * b - a * 2^s, the error of the double in units of 1 / (b * 2^s).
NearestDouble(a, b) ==
    LET Nearest(e, d, up) ==
            [exponent |-> e,
             low      |-> (d.q + (IF up THEN 1 ELSE 0)) % 512,
             rho      |-> IF up THEN b - d.r ELSE -d.r]
        Divided(e, d) == Nearest(e, d, 2 * d.r > b)
        From(e) == Divided(e, DivideBits((a \div b) % 512, a % b, b, 52 - e))
    IN  From(BinaryExponent(a, b))

Sign(n) == IF n > 0 THEN 1 ELSE IF n < 0 THEN -1 ELSE 0

\* The sign of (the double nearest a/b) - a/b, for a/b > 0 in lowest terms.
DoubleError(a, b) == IF IsPowerOfTwo(b) THEN 0 ELSE Sign(NearestDouble(a, b).rho)

----------------------------------------------------------------------------
(* Python floats and polars Float64 values: IEEE 754 doubles.              *)
(*                                                                         *)
(* A double is [sign, exp, sig]: its value is sign * m * 2^exp, where m is *)
(* the natural number whose digits in base 2^14, least significant first,  *)
(* are sig, with 2^52 <= m < 2^53; zero is FZero. Every operation gives    *)
(* the double nearest the exact result, ties to the even significand, as   *)
(* the processor does. Infinities, NaN, subnormal numbers and the sign of  *)
(* zero are not modelled: the values of the model stay far from them.      *)

LimbBase == 16384

LimbBits == 14

Zeros(n) == [i \in 1..n |-> 0]

\* A natural below 2^31 as digits.
BigOfInt(n) == <<n % LimbBase, (n \div LimbBase) % LimbBase, n \div (LimbBase * LimbBase)>>

BigPad(x, n) == IF Len(x) >= n THEN x ELSE x \o Zeros(n - Len(x))

BigIsZero(x) == \A i \in DOMAIN x : x[i] = 0

\* The position of the highest digit of x that is not 0, at or below i.
RECURSIVE BigTop(_, _)
BigTop(x, i) == IF i = 0 THEN 0 ELSE IF x[i] # 0 THEN i ELSE BigTop(x, i - 1)

BigTrim(x) == SubSeq(x, 1, BigTop(x, Len(x)))

\* The length of the longer of x and y.
BigLen(x, y) == IF Len(x) >= Len(y) THEN Len(x) ELSE Len(y)

RECURSIVE BigCmpFrom(_, _, _)
BigCmpFrom(x, y, i) ==
    IF i = 0 THEN 0
    ELSE IF x[i] # y[i] THEN (IF x[i] < y[i] THEN -1 ELSE 1)
    ELSE BigCmpFrom(x, y, i - 1)

\* -1, 0 or 1 as x is below, equal to or above y.
BigCmp(x, y) == BigCmpFrom(BigPad(x, Len(y)), BigPad(y, Len(x)), BigLen(x, y))

\* The digits acc of the sum so far, and the carry to the next digit.
RECURSIVE BigAddFrom(_, _, _, _)
BigAddFrom(x, y, carry, acc) ==
    IF Len(acc) = Len(x) THEN Append(acc, carry)
    ELSE BigAddFrom(x, y,
                    (x[Len(acc) + 1] + y[Len(acc) + 1] + carry) \div LimbBase,
                    Append(acc, (x[Len(acc) + 1] + y[Len(acc) + 1] + carry) % LimbBase))

BigAdd(x, y) == BigAddFrom(BigPad(x, Len(y)), BigPad(y, Len(x)), 0, <<>>)

\* The digits acc of the difference so far, and the borrow from the next digit.
RECURSIVE BigSubFrom(_, _, _, _)
BigSubFrom(x, y, borrow, acc) ==
    IF Len(acc) = Len(x) THEN acc
    ELSE BigSubFrom(x, y,
                    IF x[Len(acc) + 1] - y[Len(acc) + 1] - borrow < 0 THEN 1 ELSE 0,
                    Append(acc, (x[Len(acc) + 1] - y[Len(acc) + 1] - borrow) % LimbBase))

\* x - y, for x >= y.
BigSub(x, y) == BigSubFrom(BigPad(x, Len(y)), BigPad(y, Len(x)), 0, <<>>)

\* The digits acc of the product so far, and the carry to the next digit.
RECURSIVE BigMulSmallFrom(_, _, _, _)
BigMulSmallFrom(x, k, carry, acc) ==
    IF Len(acc) = Len(x) THEN Append(acc, carry)
    ELSE BigMulSmallFrom(x, k,
                         (x[Len(acc) + 1] * k + carry) \div LimbBase,
                         Append(acc, (x[Len(acc) + 1] * k + carry) % LimbBase))

\* x * k, for a natural k of at most 16 bits.
BigMulSmall(x, k) == BigMulSmallFrom(x, k, 0, <<>>)

RECURSIVE BigMulFrom(_, _, _, _)
BigMulFrom(x, y, j, acc) ==
    IF j > Len(y) THEN acc
    ELSE BigMulFrom(x, y, j + 1, BigAdd(acc, Zeros(j - 1) \o BigMulSmall(x, y[j])))

BigMul(x, y) == BigTrim(BigMulFrom(x, y, 1, <<>>))

\* x * 2^bits.
BigShl(x, bits) ==
    Zeros(bits \div LimbBits) \o BigMulSmall(x, 2 ^ (bits % LimbBits))

\* The digits acc of the quotient so far, from the highest digit of x down,
\* and the remainder.
RECURSIVE BigDivSmallFrom(_, _, _, _)
BigDivSmallFrom(x, k, rem, acc) ==
    IF Len(acc) = Len(x) THEN [q |-> acc, r |-> rem]
    ELSE BigDivSmallFrom(x, k,
                         (rem * LimbBase + x[Len(x) - Len(acc)]) % k,
                         <<(rem * LimbBase + x[Len(x) - Len(acc)]) \div k>> \o acc)

\* The quotient and the remainder of x by k, for 0 < k <= 2^14.
BigDivSmall(x, k) == BigDivSmallFrom(x, k, 0, <<>>)

\* The quotient d.q of the digits of x above the lowest limbs by a power of
\* two, and whether a bit that is 1 was lost below it.
BigShrLow(x, limbs, d) ==
    [q |-> d.q, lost |-> d.r # 0 \/ ~BigIsZero(SubSeq(x, 1, limbs))]

\* The quotient of x by 2^bits, and whether a bit that is 1 was lost.
BigShr(x, bits) ==
    IF bits \div LimbBits >= Len(x)
    THEN [q |-> <<>>, lost |-> ~BigIsZero(x)]
    ELSE BigShrLow(x, bits \div LimbBits,
                   BigDivSmall(SubSeq(x, bits \div LimbBits + 1, Len(x)),
                               2 ^ (bits % LimbBits)))

\* The number of bits of a digit n: the least k with n < 2^k.
BitLength(n) == Cardinality({k \in 0..(LimbBits - 1) : 2 ^ k <= n})

\* The number of bits of x, whose highest digit that is not 0 is at i.
BigBitLengthAt(x, i) == IF i = 0 THEN 0 ELSE (i - 1) * LimbBits + BitLength(x[i])

BigBitLength(x) == BigBitLengthAt(x, BigTop(x, Len(x)))

\* The natural below 2^31 with the digits x.
RECURSIVE BigToInt(_)
BigToInt(x) == IF x = <<>> THEN 0 ELSE Head(x) + LimbBase * BigToInt(Tail(x))

\* The digit of a long division: the estimate qhat is lowered until its
\* product with the divisor fits in the partial remainder.
RECURSIVE BigDigit(_, _, _)
BigDigit(rem, v, qhat) ==
    IF qhat > 0 /\ BigCmp(BigMulSmall(v, qhat), rem) > 0 THEN BigDigit(rem, v, qhat - 1)
    ELSE qhat

\* The digit d of the quotient is put ahead of st.q, and its product with v
\* is taken from the partial remainder r.
BigDivReduce(v, st, r, d) ==
    [q |-> <<d>> \o st.q,
     r |-> IF d = 0 THEN SubSeq(r, 1, Len(v))
           ELSE SubSeq(BigSub(r, BigMulSmall(v, d)), 1, Len(v))]

\* The digit of the quotient for the partial remainder r, estimated from the
\* two highest digits of r and the highest digit of v.
BigDivEstimate(v, st, r) ==
    BigDivReduce(v, st, r,
                 BigDigit(r, v,
                          IF (r[Len(v) + 1] * LimbBase + r[Len(v)]) \div v[Len(v)] >= LimbBase
                          THEN LimbBase - 1
                          ELSE (r[Len(v) + 1] * LimbBase + r[Len(v)]) \div v[Len(v)]))

\* One step of the long division by v, whose highest digit is at least 2^13:
\* the digit u_i is brought down to the remainder st.r.
BigDivStep(u_i, v, st) == BigDivEstimate(v, st, <<u_i>> \o st.r)

\* Long division of u by v, from the highest digit of u down: st holds the
\* digits of the quotient found so far and the remainder.
RECURSIVE BigDivFrom(_, _, _)
BigDivFrom(u, v, st) ==
    IF Len(st.q) = Len(u) THEN st
    ELSE BigDivFrom(u, v, BigDivStep(u[Len(u) - Len(st.q)], v, st))

BigDivMod(u, v) == BigDivFrom(u, v, [q |-> <<>>, r |-> Zeros(Len(v))])

FZero == [sign |-> 0, exp |-> 0, sig |-> <<0, 0, 0, 0>>]

\* The double 1.0.
FOne == [sign |-> 1, exp |-> -52, sig |-> <<0, 0, 0, 1024>>]

\* The double of sign and of the significand m of 53 or, after a carry out of
\* the rounding, 54 bits.
RoundMade(sign, m, x) ==
    IF BigBitLength(m) = 54
    THEN [sign |-> sign, exp |-> x + 1, sig |-> FOne.sig]
    ELSE [sign |-> sign, exp |-> x, sig |-> SubSeq(BigPad(m, 4), 1, 4)]

\* The 54 bits d.q * 2 + d.r are rounded to 53: up when the bit d.r is 1 and
\* a lower bit is 1 or d.q is odd.
RoundHalved(sign, sticky, d, x) ==
    RoundMade(sign,
              IF d.r = 1 /\ (sticky \/ d.q[1] % 2 = 1) THEN BigAdd(d.q, <<1>>) ELSE d.q,
              x)

\* The double of the 54 bits s.q, below which a bit that is 1 lay when s.lost
\* or sticky.
RoundShifted(sign, sticky, s, x) ==
    RoundHalved(sign, sticky \/ s.lost, BigDivSmall(s.q, 2), x)

\* The double of n, which has the given number of bits.
RoundSized(sign, n, e, sticky, bits) ==
    IF bits = 0 THEN FZero
    ELSE IF bits <= 53
         THEN [sign |-> sign, exp |-> e - (53 - bits),
               sig |-> SubSeq(BigPad(BigShl(n, 53 - bits), 4), 1, 4)]
    ELSE RoundShifted(sign, sticky, BigShr(n, bits - 54), e + (bits - 53))

\* The double nearest sign * (n + f) * 2^e, where 0 <= f < 1 and f > 0 exactly
\* when sticky; n has at least 55 bits when sticky.
RoundBig(sign, n, e, sticky) == RoundSized(sign, n, e, sticky, BigBitLength(n))

\* float(n) of an int n, |n| < 2^31.
FInt(n) == RoundBig(IF n < 0 THEN -1 ELSE 1, BigOfInt(IF n < 0 THEN -n ELSE n), 0, FALSE)

FNeg(x) == [x EXCEPT !.sign = -x.sign]

\* abs(x).
FAbs(x) == [x EXCEPT !.sign = IF x.sign = 0 THEN 0 ELSE 1]

\* x * y.
FMul(x, y) ==
    IF x.sign = 0 \/ y.sign = 0 THEN FZero
    ELSE RoundBig(x.sign * y.sign, BigMul(x.sig, y.sig), x.exp + y.exp, FALSE)

\* The double of the quotient d.q and the remainder d.r of the significands.
FDivQuotient(x, y, d) ==
    RoundBig(x.sign * y.sign, d.q, x.exp - y.exp - 56, ~BigIsZero(d.r))

\* x / y, for y # 0.
FDiv(x, y) ==
    CASE x.sign = 0 /\ y.sign # 0 -> FZero
      [] x.sign # 0 /\ y.sign # 0 ->
            FDivQuotient(x, y, BigDivMod(BigShl(x.sig, 59), SubSeq(BigShl(y.sig, 3), 1, 4)))

\* hi + lo where lo is below the last bit of hi: wide is four times the
\* significand of hi, and lo is what lies beyond it.
FAddFar(hi, lo, wide) ==
    RoundBig(hi.sign, IF hi.sign = lo.sign THEN wide ELSE BigSub(wide, <<1>>), hi.exp - 2,
             TRUE)

\* hi + lo from the significands a of hi and b of lo at the exponent of lo.
FAddNear(hi, lo, a, b) ==
    RoundBig(IF hi.sign = lo.sign \/ BigCmp(a, b) >= 0 THEN hi.sign ELSE lo.sign,
             IF hi.sign = lo.sign THEN BigAdd(a, b)
             ELSE IF BigCmp(a, b) >= 0 THEN BigSub(a, b)
             ELSE BigSub(b, a),
             lo.exp, FALSE)

\* hi + lo, for hi.exp >= lo.exp, neither zero.
FAddOrdered(hi, lo) ==
    IF hi.exp - lo.exp > 60 THEN FAddFar(hi, lo, BigShl(hi.sig, 2))
    ELSE FAddNear(hi, lo, BigShl(hi.sig, hi.exp - lo.exp), lo.sig)

\* x + y.
FAdd(x, y) ==
    IF x.sign = 0 THEN y
    ELSE IF y.sign = 0 THEN x
    ELSE FAddOrdered(IF x.exp >= y.exp THEN x ELSE y, IF x.exp >= y.exp THEN y ELSE x)

\* x - y.
FSub(x, y) == FAdd(x, FNeg(y))

\* a < b, for doubles a and b above zero.
FBelow(a, b) == IF a.exp # b.exp THEN a.exp < b.exp ELSE BigCmp(a.sig, b.sig) < 0

\* x < y.
FLess(x, y) ==
    IF x.sign # y.sign THEN x.sign < y.sign
    ELSE IF x.sign = 0 THEN FALSE
    ELSE IF x.sign = 1 THEN FBelow(x, y)
    ELSE FBelow(y, x)

\* x <= y.
FLeq(x, y) == ~FLess(y, x)

\* min(x, y) of Python: y where y < x, else x.
FMin(x, y) == IF FLess(y, x) THEN y ELSE x

\* The double of the quotient of two ints, and of the decimal literal a/b.
FRat(a, b) == FDiv(FInt(a), FInt(b))

\* The whole number nearest the 1000 * x that d.q, d.r and lost hold, the
\* even one at a tie.
FormatHalved(d, lost) ==
    BigToInt(BigTrim(d.q)) + (IF d.r = 1 /\ (lost \/ d.q[1] % 2 = 1) THEN 1 ELSE 0)

\* The value of x in thousandths, as f"{x:.3f}" writes it: the whole number
\* nearest 1000 * x, the even one at a tie; for 0 <= x < 2^20.
FormatShifted(s) == FormatHalved(BigDivSmall(s.q \o <<0>>, 2), s.lost)

FormatMilli(x) ==
    IF x.sign = 0 THEN 0
    ELSE FormatShifted(BigShr(BigMulSmall(x.sig, 1000), -x.exp - 1))
----------------------------------------------------------------------------
(* Thresholds of the scanner, src/scanner/anomalies.py lines 11-16. A float *)
(* literal is the double nearest its decimal value.                        *)

MAX_CLAIMS_PER_MONTH == 1500

\* REVENUE_ZSCORE_THRESHOLD = 3.0
REVENUE_ZSCORE_THRESHOLD == [sign |-> 1, exp |-> -51, sig |-> <<0, 0, 0, 1536>>]

\* Mutant of SPIKE_MULTIPLIER: a month is a spike above four times the mean.
SpikeMultiplierFour == [sign |-> 1, exp |-> -50, sig |-> <<0, 0, 0, 1024>>]

\* SPIKE_MULTIPLIER = 5.0
SPIKE_MULTIPLIER == [sign |-> 1, exp |-> -50, sig |-> <<0, 0, 0, 1280>>]

\* CONSISTENCY_RATIO_THRESHOLD = 0.9
CONSISTENCY_RATIO_THRESHOLD == [sign |-> 1, exp |-> -53, sig |-> <<3277, 13107, 3276, 1843>>]

CONSISTENCY_MIN_ROWS == 30

MIN_TOTAL_PAID == 100000

\* The literal 1.4826 that scales the MAD (line 166).
MAD_SCALE == [sign |-> 1, exp |-> -52, sig |-> <<2857, 7235, 2988, 1518>>]

\* The literal 10.0 of lines 173 and 210.
FTen == [sign |-> 1, exp |-> -49, sig |-> <<0, 0, 0, 1280>>]

----------------------------------------------------------------------------
(* Helpers for tables and dicts.                                           *)

Range(s) == {s[i] : i \in 1..Len(s)}

\* The rows or the values that a frame or a column holds: those of s, each
\* computed when the frame is made.
Frame(s) == SubSeq(s, 1, Len(s))

RECURSIVE SumSeq(_, _)
SumSeq(s, col) ==
    IF s = <<>> THEN 0
    ELSE (IF col = "total_paid" THEN Head(s).total_paid
          ELSE IF col = "total_claims" THEN Head(s).total_claims
          ELSE Head(s).row_count) + SumSeq(Tail(s), col)

\* monthly_df.filter(pl.col("npi") == npi), also used for group_by("npi").
RowsOf(df, npi) == SelectSeq(df, LAMBDA r : r.npi = npi)

\* The distinct npi values of a table.
Npis(df) == {df[i].npi : i \in 1..Len(df)}

\* The empty dict {}.
EmptyDict == [npi \in {} |-> <<>>]

----------------------------------------------------------------------------
(* _detect_volume_impossibility, lines 116-133.                            *)

\* Mutant of VolumeFlag: count / MAX_CLAIMS_PER_MONTH * 3 in place of
\* count / (MAX_CLAIMS_PER_MONTH * 3).
VolumeFlagUnparenthesised(row) ==
    [flag_type |-> "VOLUME_IMPOSSIBILITY",
     severity  |-> FMin(FOne, FMul(FRat(row.total_claims, MAX_CLAIMS_PER_MONTH), FInt(3))),
     evidence  |-> [month |-> row.service_month, claims |-> row.total_claims]]

\* The RedFlag built for one flagged row (lines 122-130).
VolumeFlag(row) ==
    [flag_type |-> "VOLUME_IMPOSSIBILITY",
     severity  |-> FMin(FOne, FRat(row.total_claims, MAX_CLAIMS_PER_MONTH * 3)),
     evidence  |-> [month |-> row.service_month, claims |-> row.total_claims]]

\* Mutant of VolumeFlagged: >= in place of >.
VolumeFlaggedInclusive(df) == SelectSeq(df, LAMBDA r : r.total_claims >= MAX_CLAIMS_PER_MONTH)

\* The filter of line 118.
VolumeFlagged(df) == SelectSeq(df, LAMBDA r : r.total_claims > MAX_CLAIMS_PER_MONTH)

\* Lines 121-131: a flag for every flagged row, in row order.
VolumeFlagsOf(rows) == [i \in 1..Len(rows) |-> VolumeFlag(rows[i])]

\* Lines 120-133: the flags of the flagged rows, keyed by npi.
VolumeFlagsByNpi(flagged) == [npi \in Npis(flagged) |-> VolumeFlagsOf(RowsOf(flagged, npi))]

_detect_volume_impossibility(df) == VolumeFlagsByNpi(VolumeFlagged(df))

----------------------------------------------------------------------------
(* _detect_revenue_outliers, lines 136-190.                                *)

RECURSIVE SetToSeq(_)
SetToSeq(S) ==
    IF S = {} THEN <<>>
    ELSE LET x == CHOOSE y \in S : TRUE
         IN  <<x>> \o SetToSeq(S \ {x})

\* Insert a double into an ascending sequence of doubles.
RECURSIVE FInsert(_, _)
FInsert(x, s) ==
    IF s = <<>> THEN <<x>>
    ELSE IF FLeq(x, Head(s)) THEN <<x>> \o s
    ELSE <<Head(s)>> \o FInsert(x, Tail(s))

RECURSIVE FSort(_)
FSort(s) == IF s = <<>> THEN <<>> ELSE FInsert(Head(s), FSort(Tail(s)))

\* The literal 0.5.
FHalf == [sign |-> 1, exp |-> -53, sig |-> <<0, 0, 0, 1024>>]

\* The value polars interpolates half-way between two neighbours of a sorted
\* column: lower where they are equal, else 0.5 * (upper - lower) + lower.
LinearInterpol(lower, upper) ==
    IF lower = upper THEN lower
    ELSE FAdd(FMul(FHalf, FSub(upper, lower)), lower)

\* Series.median() of a non-empty Float64 column: the middle value of the
\* sorted column, or for an even length the value interpolated between the
\* two middle values.
MedianOfSorted(t, n) ==
    IF n % 2 = 1 THEN t[(n + 1) \div 2]
    ELSE LinearInterpol(t[n \div 2], t[n \div 2 + 1])

Median(s) == MedianOfSorted(FSort(s), Len(s))

\* Lines 143-147: the sums of the rows of each npi.
RevenueSumsOf(rows) ==
    [total_paid_sum   |-> SumSeq(rows, "total_paid"),
     total_claims_sum |-> SumSeq(rows, "total_claims")]

RevenueSums(df) == [npi \in Npis(df) |-> RevenueSumsOf(RowsOf(df, npi))]

\* Mutant of RevenueProviderTotals: the total paid stands in the column
\* paid_per_claim, not divided by the claims.
RevenueKeptUndivided(sums) ==
    [npi \in {n \in DOMAIN sums : sums[n].total_claims_sum > 0} |->
        [total_paid_sum   |-> sums[npi].total_paid_sum,
         total_claims_sum |-> sums[npi].total_claims_sum,
         paid_per_claim   |-> FInt(sums[npi].total_paid_sum)]]

RevenueProviderTotalsUndivided(df) == RevenueKeptUndivided(RevenueSums(df))

\* group_by("npi").agg(sums).filter(total_claims_sum > 0).with_columns(paid_per_claim),
\* lines 142-152: one row per npi, keyed by npi.
RevenueKept(sums) ==
    [npi \in {n \in DOMAIN sums : sums[n].total_claims_sum > 0} |->
        [total_paid_sum   |-> sums[npi].total_paid_sum,
         total_claims_sum |-> sums[npi].total_claims_sum,
         paid_per_claim   |-> FRat(sums[npi].total_paid_sum,
                                   sums[npi].total_claims_sum)]]

RevenueProviderTotals(df) == RevenueKept(RevenueSums(df))

\* The column provider_totals["paid_per_claim"], as the frame holds it.
PaidPerClaimInOrder(pt, order) == [i \in 1..Len(order) |-> pt[order[i]].paid_per_claim]

PaidPerClaimColumn(pt) == Frame(PaidPerClaimInOrder(pt, SetToSeq(DOMAIN pt)))

\* Line 157.
RevenueMedian(pt) == Median(PaidPerClaimColumn(pt))

\* Line 159: the median of the absolute deviations from median_val.
AbsDeviations(col, median_val) ==
    Frame([i \in 1..Len(col) |-> FAbs(FSub(col[i], median_val))])

RevenueMad(pt, median_val) == Median(AbsDeviations(PaidPerClaimColumn(pt), median_val))

\* Mutant of MadUndefined: the guard of line 161 is left out.
MadGuardOmitted(mad_val) == FALSE

\* Line 161: mad_val is None or mad_val == 0 (the MAD of a non-empty column is
\* never None).
MadUndefined(mad_val) == mad_val = FZero

\* Mutant of ScaledMad: the MAD is not scaled.
ScaledMadUnscaled(mad_val) == mad_val

\* Line 166.
ScaledMad(mad_val) == FMul(mad_val, MAD_SCALE)

\* Line 170, for scaled_mad # 0.
ModifiedZscore(paid_per_claim, median_val, scaled_mad) ==
    FDiv(FSub(paid_per_claim, median_val), scaled_mad)

\* The RedFlag of lines 173-187 (the rounded evidence entries are left out).
RevenueFlag(row, modified_zscore) ==
    [flag_type |-> "REVENUE_OUTLIER",
     severity  |-> FMin(FOne, FDiv(modified_zscore, FTen)),
     evidence  |-> [total_paid |-> row.total_paid_sum, total_claims |-> row.total_claims_sum]]

\* Lines 172-188: a flag for every provider whose modified z-score is over
\* the threshold.
RevenueFlags(pt, z) ==
    [npi \in {n \in DOMAIN pt : FLess(REVENUE_ZSCORE_THRESHOLD, z[n])} |->
        <<RevenueFlag(pt[npi], z[npi])>>]

\* Line 170 for every row of provider_totals.
RevenueZscores(pt, median_val, scaled_mad) ==
    [npi \in DOMAIN pt |-> ModifiedZscore(pt[npi].paid_per_claim, median_val, scaled_mad)]

\* Lines 169-188: the float division of line 170 raises ZeroDivisionError when
\* scaled_mad is 0.
RevenueScaled(pt, median_val, scaled_mad) ==
    IF scaled_mad = FZero THEN [error |-> "ZeroDivisionError", flags |-> EmptyDict]
    ELSE [error |-> "none",
          flags |-> RevenueFlags(pt, RevenueZscores(pt, median_val, scaled_mad))]

\* Lines 161-166.
RevenueDeviations(pt, median_val, mad_val) ==
    IF MadUndefined(mad_val) THEN [error |-> "none", flags |-> EmptyDict]
    ELSE RevenueScaled(pt, median_val, ScaledMad(mad_val))

\* Lines 158-159.
RevenueCentred(pt, median_val) ==
    RevenueDeviations(pt, median_val, RevenueMad(pt, median_val))

\* Lines 154-157.
RevenueTotals(pt) ==
    IF DOMAIN pt = {} THEN [error |-> "none", flags |-> EmptyDict]
    ELSE RevenueCentred(pt, RevenueMedian(pt))

\* What _detect_revenue_outliers does on df: the exception it raises, if any,
\* and the dict it returns when it raises nothing.
RevenueOutcome(df) == RevenueTotals(RevenueProviderTotals(df))

\* The exception _detect_revenue_outliers raises on df, if any.
RevenueError(df) == RevenueOutcome(df).error

\* The dict _detect_revenue_outliers returns on df when it raises nothing.
_detect_revenue_outliers(df) == RevenueOutcome(df).flags

----------------------------------------------------------------------------
(* _detect_billing_spikes, lines 193-219.                                  *)

\* Insert a row into a sequence of rows ascending in service_month.
RECURSIVE MonthInsert(_, _)
MonthInsert(r, s) ==
    IF s = <<>> THEN <<r>>
    ELSE IF r.service_month <= Head(s).service_month THEN <<r>> \o s
    ELSE <<Head(s)>> \o MonthInsert(r, Tail(s))

RECURSIVE SortByMonth(_)
SortByMonth(s) == IF s = <<>> THEN <<>> ELSE MonthInsert(Head(s), SortByMonth(Tail(s)))

\* Line 198: the rows of one provider, sorted by service_month.
ProviderMonthly(df, npi) == SortByMonth(RowsOf(df, npi))

\* Mutant of SpikeEnoughHistory: two months are taken to be enough.
SpikeEnoughHistoryTwoMonths(provider_monthly) == ~(Len(provider_monthly) < 2)

\* Line 199: the providers with enough history to be tested.
SpikeEnoughHistory(provider_monthly) == ~(Len(provider_monthly) < 3)

\* Line 203: avg = sum(totals) / len(totals), for a provider with rows.
SpikeAvg(provider_monthly) ==
    FRat(SumSeq(provider_monthly, "total_paid"), Len(provider_monthly))

\* Line 208, for avg # 0.
SpikeRatio(row, avg) == FDiv(FInt(row.total_paid), avg)

\* Mutant of SpikeFlag: the severity is not capped at 1.
SpikeFlagUncapped(row, ratio) ==
    [flag_type |-> "BILLING_SPIKE",
     severity  |-> FDiv(ratio, FTen),
     evidence  |-> [month |-> row.service_month, amount |-> row.total_paid]]

\* The RedFlag of lines 210-216 (the rounded ratio of the evidence is left out).
SpikeFlag(row, ratio) ==
    [flag_type |-> "BILLING_SPIKE",
     severity  |-> FMin(FOne, FDiv(ratio, FTen)),
     evidence  |-> [month |-> row.service_month, amount |-> row.total_paid]]

\* Mutant of IsSpike: >= in place of > at line 209.
IsSpikeInclusive(ratio) == FLeq(SPIKE_MULTIPLIER, ratio)

\* Line 209.
IsSpike(ratio) == FLess(SPIKE_MULTIPLIER, ratio)

\* Line 208 for every month of one provider.
SpikeRatios(provider_monthly, avg) ==
    [i \in 1..Len(provider_monthly) |->
        [row |-> provider_monthly[i], ratio |-> SpikeRatio(provider_monthly[i], avg)]]

\* Lines 210-217 for the months that line 209 lets through.
SpikeFlagsOfHits(hits) == [i \in 1..Len(hits) |-> SpikeFlag(hits[i].row, hits[i].ratio)]

\* Line 209 for every month of one provider.
SpikeHits(rows) == SelectSeq(rows, LAMBDA h : IsSpike(h.ratio))

\* Lines 207-217: the flags of one provider that passed the guards of lines
\* 199 and 204, month by month.
SpikeFlagsOf(provider_monthly, avg) ==
    SpikeFlagsOfHits(SpikeHits(SpikeRatios(provider_monthly, avg)))

\* Mutant of SpikeAvgZero: no provider is skipped for a zero mean.
SpikeAvgGuardOmitted(avg) == FALSE

\* Line 204: "if avg == 0: continue".
SpikeAvgZero(avg) == avg = FZero

\* The exception _detect_billing_spikes raises on df, if any: the float
\* division of line 208 raises ZeroDivisionError when avg is 0.
SpikeError(df) ==
    IF \E npi \in Npis(df) :
          /\ SpikeEnoughHistory(ProviderMonthly(df, npi))
          /\ ~SpikeAvgZero(SpikeAvg(ProviderMonthly(df, npi)))
          /\ SpikeAvg(ProviderMonthly(df, npi)) = FZero
    THEN "ZeroDivisionError"
    ELSE "none"

\* Lines 203-217 for one provider with enough history.
SpikeTested(provider_monthly, avg) ==
    IF SpikeAvgZero(avg) THEN <<>> ELSE SpikeFlagsOf(provider_monthly, avg)

\* Lines 199-217 for one provider.
SpikeHistory(provider_monthly) ==
    IF ~SpikeEnoughHistory(provider_monthly) THEN <<>>
    ELSE SpikeTested(provider_monthly, SpikeAvg(provider_monthly))

\* The flags of one provider: none without enough history or with a zero mean.
SpikeFlagsFor(df, npi) == SpikeHistory(ProviderMonthly(df, npi))

\* Line 217: only the providers with a flag get a key.
NonEmptyKeys(found) == [npi \in {n \in DOMAIN found : found[n] # <<>>} |-> found[npi]]

\* The dict _detect_billing_spikes returns on df when it raises nothing.
_detect_billing_spikes(df) == NonEmptyKeys([npi \in Npis(df) |-> SpikeFlagsFor(df, npi)])
----------------------------------------------------------------------------
(* _detect_suspicious_consistency, lines 222-265.                          *)

\* Mutant of NonZeroRows: the rows of amount zero are kept.
NonZeroRowsKeepsZero(pdf) == pdf

\* Line 225.
NonZeroRows(pdf) == SelectSeq(pdf, LAMBDA r : r.total_paid # 0)

\* Insert a row into a sequence of rows descending in row_count.
RECURSIVE CountInsert(_, _)
CountInsert(r, s) ==
    IF s = <<>> THEN <<r>>
    ELSE IF r.row_count >= Head(s).row_count THEN <<r>> \o s
    ELSE <<Head(s)>> \o CountInsert(r, Tail(s))

\* Line 229: sort("row_count", descending=True). The order polars gives rows
\* of equal counts is open; the input tables have no provider with two
\* non-zero amounts of equal counts, so it plays no part.
RECURSIVE SortByCountDesc(_)
SortByCountDesc(s) ==
    IF s = <<>> THEN <<>> ELSE CountInsert(Head(s), SortByCountDesc(Tail(s)))

\* Lines 231-235: sum, first and first of the rows of one group.
ConsistencyStatsOf(rows) ==
    [total_rows       |-> SumSeq(rows, "row_count"),
     top_amount_count |-> rows[1].row_count,
     top_amount       |-> rows[1].total_paid]

\* Mutant of ConsistencyStats: the sort of line 229 is left out.
ConsistencyStatsUnsorted(pdf, npi) == ConsistencyStatsOf(RowsOf(NonZeroRows(pdf), npi))

\* Lines 230-239: the aggregate row of one provider that has non-zero rows.
ConsistencyStats(pdf, npi) ==
    ConsistencyStatsOf(RowsOf(SortByCountDesc(NonZeroRows(pdf)), npi))

\* Line 238.
ConsistencyRatio(st) == FRat(st.top_amount_count, st.total_rows)

\* The RedFlag of lines 246-262, of consistency_ratio ratio.
ConsistencyFlag(st, ratio) ==
    [flag_type |-> "SUSPICIOUS_CONSISTENCY",
     severity  |-> FMin(FOne, ratio),
     evidence  |-> [top_amount |-> st.top_amount, total_rows |-> st.total_rows]]

\* The flags of one provider that has non-zero rows: none under
\* CONSISTENCY_MIN_ROWS rows (line 236) or at or under the ratio (line 240).
ConsistencyTested(st, ratio) ==
    IF FLess(CONSISTENCY_RATIO_THRESHOLD, ratio) THEN <<ConsistencyFlag(st, ratio)>>
    ELSE <<>>

ConsistencyOfStats(st) ==
    IF st.total_rows >= CONSISTENCY_MIN_ROWS THEN ConsistencyTested(st, ConsistencyRatio(st))
    ELSE <<>>

ConsistencyFlagsFor(pdf, npi) == ConsistencyOfStats(ConsistencyStats(pdf, npi))

_detect_suspicious_consistency(pdf) ==
    NonEmptyKeys([npi \in Npis(NonZeroRows(pdf)) |-> ConsistencyFlagsFor(pdf, npi)])

----------------------------------------------------------------------------
(* scan_all, lines 19-113.                                                 *)

\* Mutant of QualifyingNpis: no minimum total.
QualifyingNpisNoMinimum(mdf) == Npis(mdf)

\* Lines 54-60: the providers whose paid amount summed over all months reaches
\* MIN_TOTAL_PAID.
QualifyingNpis(mdf) ==
    {npi \in Npis(mdf) : SumSeq(RowsOf(mdf, npi), "total_paid") >= MIN_TOTAL_PAID}

\* Mutant of FilterNpis: the tables are not filtered.
FilterNpisKeepsAll(df, qualifying_npis) == df

\* Lines 62-63: df.filter(pl.col("npi").is_in(qualifying_npis)).
FilterNpis(df, qualifying_npis) == SelectSeq(df, LAMBDA r : r.npi \in qualifying_npis)

\* dict.get(npi, []).
Get(flags, npi) == IF npi \in DOMAIN flags THEN flags[npi] ELSE <<>>

\* Mutant of MergedFlags: the consistency flags are taken first.
MergedFlagsConsistencyFirst(vf, rf, sf, cf, npi) ==
    Get(cf, npi) \o Get(vf, npi) \o Get(rf, npi) \o Get(sf, npi)

\* Lines 87-91: the flags of one provider, detector by detector.
MergedFlags(vf, rf, sf, cf, npi) ==
    Get(vf, npi) \o Get(rf, npi) \o Get(sf, npi) \o Get(cf, npi)

\* Line 98: max(f.severity for f in flags), flags not empty.
RECURSIVE MaxSeverityFrom(_, _, _)
MaxSeverityFrom(flags, i, best) ==
    IF i > Len(flags) THEN best
    ELSE MaxSeverityFrom(flags, i + 1,
                         IF FLess(best, flags[i].severity) THEN flags[i].severity ELSE best)

MaxSeverity(flags) == MaxSeverityFrom(flags, 2, flags[1].severity)

\* Line 99.
DistinctTypes(flags) == Cardinality({flags[i].flag_type : i \in 1..Len(flags)})

\* The literals 0.5 and 0.2 of line 100.
SeverityWeight == [sign |-> 1, exp |-> -53, sig |-> <<0, 0, 0, 1024>>]

KindWeight == [sign |-> 1, exp |-> -55, sig |-> <<6554, 9830, 6553, 1638>>]

\* Mutant of OverallScore: a distinct type weighs 0.15.
OverallScoreLighterKinds(flags) ==
    FMin(FOne, FAdd(FMul(MaxSeverity(flags), SeverityWeight),
                    FMul(FInt(DistinctTypes(flags)), FRat(3, 20))))

\* Mutant of OverallScore: len(flags) in place of the number of distinct types.
OverallScoreCountsFlags(flags) ==
    FMin(FOne, FAdd(FMul(MaxSeverity(flags), SeverityWeight),
                    FMul(FInt(Len(flags)), KindWeight)))

\* Mutant of OverallScore: the number of distinct types plays no part.
OverallScoreSeverityOnly(flags) == FMin(FOne, MaxSeverity(flags))

\* Line 100: min(1.0, max_severity * 0.5 + distinct_types * 0.2).
OverallScore(flags) ==
    FMin(FOne, FAdd(FMul(MaxSeverity(flags), SeverityWeight),
                    FMul(FInt(DistinctTypes(flags)), KindWeight)))

\* Lines 102-107.
MakeResult(npi, flags) ==
    [npi |-> npi, provider_name |-> "", overall_score |-> OverallScore(flags),
     red_flags |-> flags]

\* Mutant of KeepResult: > in place of >=.
KeepResultStrict(result, threshold) == FLess(threshold, result.overall_score)

\* Line 108: the results that are appended.
KeepResult(result, threshold) == FLeq(threshold, result.overall_score)

\* Insert a result into a sequence of results descending in overall_score,
\* ahead of the results of equal score.
RECURSIVE ScoreInsert(_, _)
ScoreInsert(r, s) ==
    IF s = <<>> THEN <<r>>
    ELSE IF FLeq(Head(s).overall_score, r.overall_score) THEN <<r>> \o s
    ELSE <<Head(s)>> \o ScoreInsert(r, Tail(s))

\* Mutant of SortByScoreDesc: the sort is left out.
SortOmitted(s) == s

\* Line 111: results.sort(key=overall_score, reverse=True); list.sort is stable,
\* so results of equal score keep the order in which they were appended.
RECURSIVE SortByScoreDesc(_)
SortByScoreDesc(s) ==
    IF s = <<>> THEN <<>> ELSE ScoreInsert(Head(s), SortByScoreDesc(Tail(s)))

\* Line 86: "for npi in all_npis" visits the set in the order the process's
\* string hashing gives it; order is that order over all npi strings.
IterationOrder(all_npis, order) == SelectSeq(order, LAMBDA n : n \in all_npis)

\* The first of two steps raises its exception, if any; else the later one
\* raises its own.
FirstError(error, later) == IF error # "none" THEN error ELSE later

\* The exception scan_all raises on two tables that have every column, if any:
\* that of the first detector that raises, none of which is caught.
ScanError(mdf, pdf) ==
    FirstError(RevenueError(FilterNpis(mdf, QualifyingNpis(mdf))),
               SpikeError(FilterNpis(mdf, QualifyingNpis(mdf))))

\* A polars expression on a column the frame does not have raises
\* ColumnNotFoundError when the frame evaluates it, whether or not the frame
\* has rows; row["name"] on a row of iter_rows(named=True) raises KeyError.
MissingColumn(needed, columns) ==
    IF needed \subseteq columns THEN "none" ELSE "ColumnNotFoundError"

\* The exception _detect_volume_impossibility raises for the columns of its
\* table, if any: the filter of line 118, then row["npi"] of line 122 and
\* row["service_month"] of line 127 once a row is flagged.
VolumeColumnError(columns, df) ==
    IF MissingColumn({"total_claims"}, columns) # "none"
    THEN MissingColumn({"total_claims"}, columns)
    ELSE IF /\ \E i \in 1..Len(df) : df[i].total_claims > MAX_CLAIMS_PER_MONTH
            /\ ~({"npi", "service_month"} \subseteq columns)
         THEN "KeyError"
         ELSE "none"

\* Lines 142-147: the aggregation of _detect_revenue_outliers.
RevenueColumnError(columns) == MissingColumn({"npi", "total_paid", "total_claims"}, columns)

\* Lines 197-202: monthly_df["npi"], then for a provider the sort by
\* service_month, then for a provider of three or more rows the column
\* total_paid.
SpikeColumnError(columns, df) ==
    IF MissingColumn({"npi"}, columns) # "none" THEN MissingColumn({"npi"}, columns)
    ELSE IF df # <<>> /\ MissingColumn({"service_month"}, columns) # "none"
         THEN MissingColumn({"service_month"}, columns)
         ELSE IF \E npi \in Npis(df) : Len(RowsOf(df, npi)) >= 3
              THEN MissingColumn({"total_paid"}, columns)
              ELSE "none"

\* Lines 225-233: the filter, the sort and the aggregation of
\* _detect_suspicious_consistency.
ConsistencyColumnError(columns) == MissingColumn({"total_paid", "row_count", "npi"}, columns)

\* The exception a direct call of each detector raises, if any.
VolumeRaises(columns, df) == VolumeColumnError(columns, df)

RevenueRaises(columns, df) == FirstError(RevenueColumnError(columns), RevenueError(df))

SpikeRaises(columns, df) == FirstError(SpikeColumnError(columns, df), SpikeError(df))

ConsistencyRaises(columns, df) == ConsistencyColumnError(columns)

\* The exception scan_all raises on two tables of the given columns, if any:
\* that of the aggregation of lines 54-56, of the filters of lines 62-63, or of
\* the first detector that raises (lines 69-79); none of them is caught.
DetectorsRaise(mcols, pcols, monthly, procedure) ==
    FirstError(VolumeRaises(mcols, monthly),
               FirstError(RevenueRaises(mcols, monthly),
                          FirstError(SpikeRaises(mcols, monthly),
                                     ConsistencyRaises(pcols, procedure))))

ScanRaises(mcols, pcols, mdf, pdf) ==
    FirstError(MissingColumn({"npi", "total_paid"}, mcols),
               FirstError(MissingColumn({"npi"}, pcols),
                          DetectorsRaise(mcols, pcols,
                                         FilterNpis(mdf, QualifyingNpis(mdf)),
                                         FilterNpis(pdf, QualifyingNpis(mdf)))))

\* Lines 93-107 for one npi: nothing without flags (line 93), else a result.
ScoredOrSkipped(npi, flags) ==
    IF flags = <<>> THEN [npi |-> npi, red_flags |-> <<>>]
    ELSE MakeResult(npi, flags)

\* Lines 86-107 over the npis in the order visit.
ScoredInOrder(vf, rf, sf, cf, visit) ==
    SelectSeq([i \in 1..Len(visit) |->
                  ScoredOrSkipped(visit[i], MergedFlags(vf, rf, sf, cf, visit[i]))],
              LAMBDA r : r.red_flags # <<>>)

\* Lines 82-107 on the four dicts of the detectors.
ScoredFromFlags(vf, rf, sf, cf, order) ==
    ScoredInOrder(vf, rf, sf, cf,
                  IterationOrder(DOMAIN vf \cup DOMAIN rf \cup DOMAIN sf \cup DOMAIN cf,
                                 order))

\* Lines 69-107 on the two filtered tables.
ScoredFromTables(monthly, procedure, order) ==
    ScoredFromFlags(_detect_volume_impossibility(monthly),
                    _detect_revenue_outliers(monthly),
                    _detect_billing_spikes(monthly),
                    _detect_suspicious_consistency(procedure),
                    order)

\* Lines 53-107 without the test of line 108: a result for every provider with
\* a flag, in the order in which the loop of line 86 visits all_npis.
ScoredProviders(mdf, pdf, order) ==
    ScoredFromTables(FilterNpis(mdf, QualifyingNpis(mdf)),
                     FilterNpis(pdf, QualifyingNpis(mdf)), order)

\* Lines 108-113: the scored providers that reach the threshold are appended,
\* and the list is sorted and returned.
ThresholdAndSort(scored, threshold) ==
    SortByScoreDesc(SelectSeq(scored, LAMBDA r : KeepResult(r, threshold)))

\* Line 21: threshold: float = 0.3, the threshold of a call without one.
DEFAULT_THRESHOLD == [sign |-> 1, exp |-> -54, sig |-> <<13107, 3276, 13107, 1228>>]

\* The list scan_all returns on the two tables it has loaded, when it raises
\* nothing.
scan_all(mdf, pdf, threshold, order) ==
    ThresholdAndSort(ScoredProviders(mdf, pdf, order), threshold)

----------------------------------------------------------------------------
(* build_dossier and _compare_to_peers, src/profiler/dossier.py. A claims  *)
(* file is the set of its column names and the sequence of its rows; a row *)
(* has the field npi and, where the file has a specialty or an amount      *)
(* column in either spelling, the fields specialty and billed_amount.      *)

\* A null cell.
Null == "null"

\* loader.py lines 56-59.
load_claims_for_provider(file, npi) == SelectSeq(file.rows, LAMBDA r : r.npi = npi)

\* Line 108.
SpecialtyCol(names) == IF "specialty" \in names THEN "specialty" ELSE "SPECIALTY"

\* Line 110.
AmountCol(names) == IF "billed_amount" \in names THEN "billed_amount" ELSE "BILLED_AMT"

\* Series.sum() of the amount column.
RECURSIVE SumBilled(_)
SumBilled(rows) ==
    IF rows = <<>> THEN 0 ELSE Head(rows).billed_amount + SumBilled(Tail(rows))

\* The sign of (the double count / height * 100 of line 147) - 100 * a/b, for
\* a/b > 0 the fraction count / height in lowest terms: the double nearest a/b
\* is multiplied by 100 and the product of 59 or 60 bits is rounded to 53.
PercentError(a, b) ==
    LET Error(d, P, t, half) ==
            LET Adjusted(low) ==
                    IF low < half THEN -low
                    ELSE IF low > half THEN 2 * half - low
                    ELSE IF (P \div (2 * half)) % 2 = 1 THEN half ELSE -half
            IN  Sign(100 * d.rho + Adjusted(P % (2 * half)) * b)
        Bits(d, lhs, rhs) ==
            IF lhs > rhs \/ (lhs = rhs /\ d.rho > 0)
            THEN Error(d, 100 * d.low, 7, 64) ELSE Error(d, 100 * d.low, 6, 32)
        Of(d) == Bits(d, 25 * a * (IF d.exponent < 0 THEN TwoToThe(-d.exponent) ELSE 1),
                         32 * b * (IF d.exponent > 0 THEN TwoToThe(d.exponent) ELSE 1))
    IN  IF IsPowerOfTwo(b) THEN 0 ELSE Of(NearestDouble(a, b))

\* The multiple of 1/scale nearest the double whose exact value is p >= 0 and
\* whose error has the sign err: a tie of the exact value goes the way of the
\* error of the double, and to the even multiple when the double is exact.
RoundNear(p, scale, err) ==
    LET Near(q, r) ==
            IF \/ 2 * r > p[2]
               \/ 2 * r = p[2] /\ (err > 0 \/ (err = 0 /\ q % 2 = 1))
            THEN q + 1 ELSE q
    IN  Near((p[1] * scale) \div p[2], (p[1] * scale) % p[2])

\* round(x, 1) and round(x, 2) of the double x nearest p, for scale = 10 and
\* 100: round gives the multiple of 1/scale nearest the double.
RRound(p, scale) ==
    LET Signed(k) == Rat(IF p[1] < 0 THEN -k ELSE k, scale)
    IN  Signed(RoundNear(<<Abs(p[1]), p[2]>>, scale,
                         IF p[1] = 0 THEN 0 ELSE DoubleError(Abs(p[1]), p[2])))

\* Line 156: round(percentile_rank, 1), for the exact value p > 0 of
\* percentile_rank.
RoundPercentile(p) ==
    LET Of(f) == Rat(RoundNear(p, 10, PercentError(f[1], f[2])), 10)
    IN  Of(RDiv(p, RInt(100)))

\* The largest k in lo..hi with (2k - 1)^2 / 40000 <= r, for lo such a k.
RECURSIVE LastHalfStep(_, _, _)
LastHalfStep(lo, hi, r) ==
    LET Halve(mid) ==
            IF RLeq(<<(2 * mid - 1) * (2 * mid - 1), 40000>>, r)
            THEN LastHalfStep(mid, hi, r)
            ELSE LastHalfStep(lo, mid - 1, r)
    IN  IF lo = hi THEN lo ELSE Halve((lo + hi + 1) \div 2)

\* Line 160: round((provider_total - peer_mean) / peer_std, 2), from the
\* deviation from the mean and the variance. Where the exact quotient lies
\* halfway between two hundredths, the double, the outcome of the roundings
\* of the mean, of the standard deviation and of the division, lies on the
\* side that up tells.
RoundZscore(deviation, variance, up) ==
    LET Signed(n) == Rat(IF deviation[1] < 0 THEN -n ELSE n, 100)
        \* at a tie k - 1/2 is the exact value of 100 |z|
        Hundredths(r, k) ==
            IF /\ k > 0
               /\ Rat((2 * k - 1) * (2 * k - 1), 40000) = r
               /\ up = (deviation[1] < 0)
            THEN Signed(k - 1) ELSE Signed(k)
        Of(r) == Hundredths(r, LastHalfStep(0, 100 * (r[1] \div r[2] + 1) + 1, r))
    IN  Of(RDiv(RMul(deviation, deviation), variance))

\* Mutant of Unavailable: statistics of value zero are filled in.
UnavailableZeroStats(note) ==
    [note |-> note, peer_count |-> 0, peer_mean_billed |-> RZero,
     peer_median_billed |-> RZero, provider_percentile |-> RZero]

\* The dicts of lines 114, 118 and 139.
Unavailable(note) == [note |-> note]

\* Line 116: provider_claims[specialty_col].drop_nulls().
SpecialtyVals(provider_claims) ==
    LET named == SelectSeq(provider_claims, LAMBDA r : r.specialty # Null)
    IN  [i \in 1..Len(named) |-> named[i].specialty]

\* Lines 128-136: the rows of the file with the specialty, grouped by npi.
Peers(file, specialty) ==
    LET same == SelectSeq(file.rows, LAMBDA r : r.specialty = specialty)
    IN  [npi \in Npis(same) |->
            [total_billed |-> SumBilled(RowsOf(same, npi)),
             claim_count  |-> Len(RowsOf(same, npi))]]

\* The column peers["total_billed"] as a sequence of rationals.
TotalBilledColumn(peers) ==
    LET order == SetToSeq(DOMAIN peers)
    IN  [i \in 1..Len(order) |-> RInt(peers[order[i]].total_billed)]

\* Insert a rational into an ascending sequence of rationals.
RECURSIVE RInsert(_, _)
RInsert(x, s) ==
    IF s = <<>> THEN <<x>>
    ELSE IF RLeq(x, Head(s)) THEN <<x>> \o s
    ELSE <<Head(s)>> \o RInsert(x, Tail(s))

RECURSIVE RSort(_)
RSort(s) == IF s = <<>> THEN <<>> ELSE RInsert(Head(s), RSort(Tail(s)))

\* Line 143: Series.median() of the non-empty column of whole totals: the
\* middle value, or the value half-way between the two middle values.
PeerMedian(s) ==
    LET t == RSort(s)
        n == Len(t)
    IN  IF n % 2 = 1 THEN t[(n + 1) \div 2]
        ELSE RDiv(RAdd(t[n \div 2], t[n \div 2 + 1]), RInt(2))

\* Line 142: Series.mean().
PeerMean(peers) ==
    LET order == SetToSeq(DOMAIN peers)
        rows  == [i \in 1..Len(order) |-> [billed_amount |-> peers[order[i]].total_billed]]
    IN  Rat(SumBilled(rows), Len(order))

\* Line 144: Series.std() squared: the sample variance, Null for a single peer.
PeerVariance(peers) ==
    LET order == SetToSeq(DOMAIN peers)
        n     == Len(order)
        rows  == [i \in 1..n |-> [billed_amount |-> peers[order[i]].total_billed]]
        sum   == SumBilled(rows)
        sq    == [i \in 1..n |->
                     [billed_amount |-> (rows[i].billed_amount * n - sum)
                                        * (rows[i].billed_amount * n - sum)]]
    IN  IF n < 2 THEN Null ELSE Rat(SumBilled(sq), n * n * (n - 1))

\* Lines 146-148.
PercentileRank(peers, provider_total) ==
    Rat(Cardinality({npi \in DOMAIN peers : peers[npi].total_billed <= provider_total}) * 100,
        Cardinality(DOMAIN peers))

\* Lines 150-162; up tells the side on which the double z-score lies.
Comparison(peers, specialty, provider_total, up) ==
    LET WithZscore(base, var) ==
            IF var # Null /\ var # RZero
            THEN [f \in DOMAIN base \cup {"zscore"} |->
                     IF f = "zscore"
                     THEN RoundZscore(RSub(RInt(provider_total), PeerMean(peers)), var, up)
                     ELSE base[f]]
            ELSE base
    IN  WithZscore([specialty             |-> specialty,
                    peer_count            |-> Cardinality(DOMAIN peers),
                    provider_total_billed |-> provider_total,
                    peer_mean_billed      |-> RRound(PeerMean(peers), 100),
                    peer_median_billed    |-> RRound(PeerMedian(TotalBilledColumn(peers)), 100),
                    provider_percentile   |-> RoundPercentile(PercentileRank(peers, provider_total))],
                   PeerVariance(peers))

\* Lines 105-162; the file that load_claims reads at line 122 is the file the
\* provider's claims come from, so its column names are the same.
_compare_to_peers(file, npi, provider_claims, ups) ==
    IF SpecialtyCol(file.columns) \notin file.columns \/ AmountCol(file.columns) \notin file.columns
    THEN Unavailable("Peer comparison unavailable - missing specialty or billing columns")
    ELSE IF Len(SpecialtyVals(provider_claims)) = 0
    THEN Unavailable("No specialty data available for peer comparison")
    ELSE LET specialty == SpecialtyVals(provider_claims)[1]
             peers     == Peers(file, specialty)
         IN  IF DOMAIN peers = {}
             THEN Unavailable("No peers found in same specialty")
             ELSE Comparison(peers, specialty, SumBilled(provider_claims), npi \in ups)

\* Lines 35-54: the files here have no name, state, city or zip column.
_extract_provider_info(file, claims, npi) ==
    [npi       |-> npi,
     name      |-> "",
     specialty |-> IF {"specialty", "SPECIALTY"} \cap file.columns # {}
                      /\ Len(SpecialtyVals(claims)) > 0
                   THEN SpecialtyVals(claims)[1] ELSE ""]

\* Lines 57-102: the files here have no paid_amount and no service_date column;
\* the mean and the maximum of the amounts, and the top_procedures entry of a
\* file with a procedure_code column, are left out.
_summarize_claims(file, claims) ==
    IF AmountCol(file.columns) \in file.columns
    THEN [total_claims |-> Len(claims), total_billed |-> SumBilled(claims)]
    ELSE [total_claims |-> Len(claims)]

\* Lines 165-172: without a date column the timeline is [].
_build_timeline(file, claims) == <<>>

\* Mutant of BuildDossierError: the test of line 15 is left out.
BuildDossierErrorNever(file, npi) == "none"

\* Lines 14-16: the exception build_dossier raises, if any.
BuildDossierError(file, npi) ==
    IF load_claims_for_provider(file, npi) = <<>> THEN "ClickException" ELSE "none"

\* The argument scan_result = None of build_dossier; a ScanResult r is passed
\* as <<r>>.
None == <<>>

\* Lines 23-24: the default ScanResult takes the place of None only.
ScanResultOf(scan_result, npi, provider) ==
    IF scan_result = None
    THEN [npi |-> npi, provider_name |-> provider.name,
          overall_score |-> FZero, red_flags |-> <<>>]
    ELSE scan_result[1]

\* Lines 10-32: the Dossier build_dossier returns when it raises nothing.
build_dossier(file, npi, scan_result, ups) ==
    LET claims   == load_claims_for_provider(file, npi)
        provider == _extract_provider_info(file, claims, npi)
    IN  [provider        |-> provider,
         scan_result     |-> ScanResultOf(scan_result, npi, provider),
         claims_summary  |-> _summarize_claims(file, claims),
         peer_comparison |-> _compare_to_peers(file, npi, claims, ups),
         timeline        |-> _build_timeline(file, claims)]

----------------------------------------------------------------------------
(* Inputs.                                                                 *)

\* The provider ids, in ascending string order.
NpiAscending == <<"p1", "p2", "p3", "p4", "p5">>

Entities == Range(NpiAscending)

\* The position of an npi in ascending string order.
NpiIndex(npi) == CHOOSE i \in 1..Len(NpiAscending) : NpiAscending[i] = npi

\* Months of history of the provider whose history is enumerated in full.
MaxMonths == 3

\* Runs of the scan command in one session.
MaxScans == 2

\* All orders in which the elements of the set S may be iterated.
SetOrders(S) == {o \in [1..Cardinality(S) -> S] : Range(o) = S}

SeqsUpTo(S, n) == UNION {[1..k -> S] : k \in 0..n}

\* The monthly rows of one provider from its history <<claims, paid>>, month 1 first.
HistoryRows(npi, h) ==
    [i \in 1..Len(h) |->
        [npi |-> npi, service_month |-> i, total_claims |-> h[i][1], total_paid |-> h[i][2]]]

\* The procedure rows of one provider from its <<paid amount, row_count>> pairs.
AmountRows(npi, a) ==
    [i \in 1..Len(a) |-> [npi |-> npi, total_paid |-> a[i][1], row_count |-> a[i][2]]]

RECURSIVE MonthlyTableFrom(_, _)
MonthlyTableFrom(h, i) ==
    IF i > Len(h) THEN <<>>
    ELSE HistoryRows(NpiAscending[i], h[i]) \o MonthlyTableFrom(h, i + 1)

\* The monthly table of providers p1, p2, ... with the histories h[1], h[2], ...
MonthlyTable(h) == MonthlyTableFrom(h, 1)

RECURSIVE ProcedureTableFrom(_, _)
ProcedureTableFrom(a, i) ==
    IF i > Len(a) THEN <<>>
    ELSE AmountRows(NpiAscending[i], a[i]) \o ProcedureTableFrom(a, i + 1)

ProcedureTable(a) == ProcedureTableFrom(a, 1)

\* Monthly rows <<claims, paid>> of the scan inputs: an ordinary month, a month
\* of impossible volume and high price, a month of net refunds.
ScanMonths == {<<1000, 100000>>, <<3000, 600000>>, <<1000, -250000>>}

\* A history that draws a flag of each of the three monthly detectors when the
\* other two providers bill about 70 per claim.
ThreeKinds == << <<5000, 1400000>>, <<100, -500000>>, <<100, -500000>> >>

\* The table where p1, ..., p5 have one month each, of the given claims and of
\* the paid amounts of paid.
OneMonthEach(claims, paid) ==
    MonthlyTable([i \in 1..Len(paid) |-> << <<claims, paid[i]>> >>])

\* Tables where the modified z-score of p5 is, in exact terms, 3 and 10: the
\* median is that of p3, the MAD the distance of p2 and p4 from it, and p5 lies
\* 3 * 1.4826 and 10 * 1.4826 times the MAD above the median.
ZscoreThree(claims) == OneMonthEach(claims, <<100000, 145000, 150000, 155000, 172239>>)

ZscoreTen(claims) == OneMonthEach(claims, <<100000, 109500, 110000, 110500, 117413>>)

\* A month of 4230 claims: a severity of 0.94 and a score whose exact value is
\* 0.67, where line 100 gives the double below the double 0.67.
ScoreBelowExact == MonthlyTable(<< << <<4230, 100000>> >> >>)

\* A month of six times the mean of three months, and a month of 2000 claims: a
\* spike flag of severity 0.6 and a volume flag of a lower severity, and a
\* score whose exact value is 0.7.
ScoreAtThreshold ==
    MonthlyTable(<< << <<2000, -150000>>, <<100, -150000>>, <<100, 600000>> >> >>)

\* The table ZscoreThree(1501) with five idle months of p5: every provider
\* draws a volume flag, and the sixth of the total that the first month of p5
\* is of its mean draws a spike flag of severity 0.6.
CoupledUps ==
    ZscoreThree(1501)
    \o [i \in 1..5 |-> [npi |-> "p5", service_month |-> i + 1, total_claims |-> 0,
                        total_paid |-> 0]]

\* A volume flag of p1 and a spike flag of p2 whose severities are 0.94 and a
\* value just below it.
UlpOrder ==
    <<[npi |-> "p1", service_month |-> 1, total_claims |-> 4230, total_paid |-> 423000]>>
    \o [i \in 1..11 |-> [npi |-> "p2", service_month |-> i, total_claims |-> 0,
                         total_paid |-> 52000]]
    \o <<[npi |-> "p2", service_month |-> 12, total_claims |-> 0, total_paid |-> 2067999]>>

\* A volume flag of p2 and a spike flag of p1, both of the severity 19/30; the
\* rows of p2 stand ahead of those of p1.
TieVolumeFirst ==
    <<[npi |-> "p2", service_month |-> 1, total_claims |-> 2850, total_paid |-> 427500]>>
    \o [i \in 1..9 |-> [npi |-> "p1", service_month |-> i, total_claims |-> 33,
                        total_paid |-> 4950]]
    \o <<[npi |-> "p1", service_month |-> 10, total_claims |-> 513, total_paid |-> 76950]>>

\* A month of 9.6 times the mean of twelve months: a spike flag of the
\* severity 0.96, and a score whose exact value is 0.68.
Spike96 ==
    [i \in 1..11 |-> [npi |-> "p1", service_month |-> i, total_claims |-> 0,
                      total_paid |-> 10000]]
    \o <<[npi |-> "p1", service_month |-> 12, total_claims |-> 0, total_paid |-> 440000]>>

\* Tables on which a double is compared with a value that its exact value
\* equals or lies next to: the z-score with 3 and with 10, without and with
\* volume flags, the score with a threshold, and two scores with each other.
RoundingMonthlyInputs ==
    {ZscoreThree(3), ZscoreTen(3), ZscoreTen(1501), ScoreBelowExact, ScoreAtThreshold,
     CoupledUps, UlpOrder, TieVolumeFirst, Spike96}

\* The histories of p2 and p3 beside the enumerated history of p1.
PeerHistories ==
    {<< <<>>, <<>> >>,
     << << <<5000, 99000>> >>, << <<1500, 103500>> >> >>,
     << << <<3000, 100000>> >>, << <<5000, 500000>> >> >>,
     << << <<1500, 105000>> >>, << <<1500, 103500>> >> >>}

ScanMonthlyInputs ==
    {MonthlyTable(<<h1, peers[1], peers[2]>>) :
        h1 \in SeqsUpTo(ScanMonths, MaxMonths) \cup {ThreeKinds},
        peers \in PeerHistories}
    \cup RoundingMonthlyInputs

\* Either no procedure rows, or rows where p1 bills one amount on 40 of 44 rows,
\* p2 one amount on all 30 non-zero rows, and p3 one amount on 27 of 30 rows.
ScanProcedureInputs ==
    {<<>>,
     ProcedureTable(<< << <<100, 40>>, <<50, 4>> >>,
                       << <<0, 50>>, <<75, 30>> >>,
                       << <<20, 3>>, <<80, 27>> >> >>)}

----------------------------------------------------------------------------
(* preprocess, src/data/loader.py lines 68-110. A row of a dataset of the  *)
(* HHS schema has the fields npi, procedure_code, service_month,           *)
(* beneficiaries, total_claims and total_paid.                             *)

\* The columns of the monthly table that preprocess writes (lines 87-92).
PreprocessedMonthlyColumns ==
    {"npi", "service_month", "total_claims", "total_paid", "beneficiaries"}

\* The exception preprocess raises on a dataset, if any: that of the first
\* aggregation, collected at line 94, on a column the dataset does not have.
PreprocessError(file) == MissingColumn(PreprocessedMonthlyColumns, file.columns)

\* A set of whole numbers as an ascending sequence.
RECURSIVE Ascending(_)
Ascending(S) ==
    IF S = {} THEN <<>>
    ELSE LET x == CHOOSE y \in S : \A z \in S : y <= z
         IN  <<x>> \o Ascending(S \ {x})

\* The npi values of the rows, in ascending string order.
NpisAscending(rows) == SelectSeq(NpiAscending, LAMBDA n : n \in Npis(rows))

RECURSIVE SumField(_, _)
SumField(rows, col) ==
    IF rows = <<>> THEN 0 ELSE Head(rows)[col] + SumField(Tail(rows), col)

RECURSIVE Flatten(_)
Flatten(ss) == IF ss = <<>> THEN <<>> ELSE Head(ss) \o Flatten(Tail(ss))

\* The rows lines 86-95 give one provider: one row per month, with the sums
\* of the claims, of the paid amounts and of the beneficiaries, by month.
MonthlyOf(rows, npi) ==
    LET own    == RowsOf(rows, npi)
        months == Ascending({own[i].service_month : i \in 1..Len(own)})
    IN  [k \in 1..Len(months) |->
            LET part == SelectSeq(own, LAMBDA r : r.service_month = months[k])
            IN  [npi           |-> npi,
                 service_month |-> months[k],
                 total_claims  |-> SumField(part, "total_claims"),
                 total_paid    |-> SumField(part, "total_paid"),
                 beneficiaries |-> SumField(part, "beneficiaries")]]

\* Lines 86-96: provider_monthly.parquet, sorted by npi and service_month.
PreprocessMonthly(rows) ==
    LET order == NpisAscending(rows)
    IN  Flatten([i \in 1..Len(order) |-> MonthlyOf(rows, order[i])])

\* The rows lines 101-106 give one provider: one row per paid amount, with the
\* number of rows of that amount, by amount.
ProcedureOf(rows, npi) ==
    LET own     == RowsOf(rows, npi)
        amounts == Ascending({own[i].total_paid : i \in 1..Len(own)})
    IN  [k \in 1..Len(amounts) |->
            [npi        |-> npi,
             total_paid |-> amounts[k],
             row_count  |-> Len(SelectSeq(own, LAMBDA r : r.total_paid = amounts[k]))]]

\* Lines 101-107: provider_procedure.parquet, sorted by npi and total_paid.
PreprocessProcedure(rows) ==
    LET order == NpisAscending(rows)
    IN  Flatten([i \in 1..Len(order) |-> ProcedureOf(rows, order[i])])

----------------------------------------------------------------------------
(* The state machine: one session on fixed inputs makes either one direct  *)
(* call of a detector, as each detector test does, or up to MaxScans runs  *)
(* of the scan command and then one of the profile command, with one run   *)
(* of the preprocess command between the scans or ahead of them.           *)

\* The outcome of a direct call of a detector: not called yet, returned a dict
\* of flags, or raised an exception.
NotCalled == [called |-> FALSE, error |-> "none", flags |-> EmptyDict]

Returned(flags) == [called |-> TRUE, error |-> "none", flags |-> flags]

Raised(error) == [called |-> TRUE, error |-> error, flags |-> EmptyDict]

\* The outcome of a call of build_dossier: not called yet, returned a Dossier,
\* or raised an exception.
NotBuilt == [called |-> FALSE, error |-> "none", npi |-> "", value |-> <<>>]

Built(npi, value) == [called |-> TRUE, error |-> "none", npi |-> npi, value |-> value]

BuildRaised(npi, error) == [called |-> TRUE, error |-> error, npi |-> npi, value |-> <<>>]

\* The outcome of a call of preprocess: not called yet, returned, or raised
\* an exception.
NotPreprocessed == [called |-> FALSE, error |-> "none"]

\* The columns of a file of the HHS schema, renamed by the loader.
HhsColumns ==
    {"npi", "servicing_npi", "procedure_code", "service_month", "beneficiaries",
     "total_claims", "total_paid"}

\* A claims file without rows.
EmptyFile == [columns |-> HhsColumns, rows |-> <<>>]

\* A row of a file of the HHS schema.
HhsRow(npi, procedure_code, service_month, beneficiaries, total_claims, total_paid) ==
    [npi            |-> npi,
     servicing_npi  |-> npi,
     procedure_code |-> procedure_code,
     service_month  |-> service_month,
     beneficiaries  |-> beneficiaries,
     total_claims   |-> total_claims,
     total_paid     |-> total_paid]

\* A file of the HHS schema where p2 has one row, and p1 a row of a second
\* month ahead of two rows of the first month that are of two procedures, of
\* one paid amount and together of 1800 claims.
HhsFile ==
    [columns |-> HhsColumns,
     rows    |-> <<HhsRow("p2", "T1019", 1, 2, 100, 7000),
                   HhsRow("p1", "T1019", 2, 3, 100, 5000),
                   HhsRow("p1", "T1019", 1, 10, 1000, 60000),
                   HhsRow("p1", "S5125", 1, 5, 800, 60000)>>]

\* The columns the two tables have when scan_all aggregates them itself.
MonthlyColumns == {"npi", "service_month", "total_claims", "total_paid"}

ProcedureColumns == {"npi", "total_paid", "row_count"}

\* Both tables have every column.
FullSchema ==
    /\ monthly_columns = MonthlyColumns
    /\ procedure_columns = ProcedureColumns

\* The exception the aggregations of lines 38-51 of scan_all raise on a
\* dataset, if any: that of the first one, collected at line 44.
AggregateError(file) == MissingColumn(MonthlyColumns, file.columns)

\* The groups of lines 39 and 48: the values of the key columns.
MonthlyGroups(rows) == {<<rows[i].npi, rows[i].service_month>> : i \in 1..Len(rows)}

ProcedureGroups(rows) == {<<rows[i].npi, rows[i].total_paid>> : i \in 1..Len(rows)}

\* Lines 38-45: one row per npi and month, with the sums of the claims and of
\* the paid amounts; polars gives the groups in an order of its own, groups.
AggregateMonthly(rows, groups) ==
    [k \in 1..Len(groups) |->
        LET Of(part) == [npi           |-> groups[k][1],
                         service_month |-> groups[k][2],
                         total_claims  |-> SumField(part, "total_claims"),
                         total_paid    |-> SumField(part, "total_paid")]
        IN  Of(SelectSeq(rows, LAMBDA r : <<r.npi, r.service_month>> = groups[k]))]

\* Lines 47-51: one row per npi and paid amount, with the number of rows.
AggregateProcedure(rows, groups) ==
    [k \in 1..Len(groups) |->
        [npi        |-> groups[k][1],
         total_paid |-> groups[k][2],
         row_count  |-> Len(SelectSeq(rows, LAMBDA r : <<r.npi, r.total_paid>> = groups[k]))]]

\* output/scan_results.csv: absent, or the rows under the header.
NoCsv == [exists |-> FALSE, rows |-> <<>>]

\* RedFlagType.value of a flag type.
FlagTypeValue(flag_type) ==
    CASE flag_type = "VOLUME_IMPOSSIBILITY" -> "volume_impossibility"
      [] flag_type = "REVENUE_OUTLIER" -> "revenue_outlier"
      [] flag_type = "BILLING_SPIKE" -> "billing_spike"
      [] flag_type = "SUSPICIOUS_CONSISTENCY" -> "suspicious_consistency"

\* cli.py lines 59-67: the file the scan command writes. The score is the
\* text of three decimals, held as the number of thousandths; flag_types is
\* the set of the values that the row joins in the order of a Python set.
WriteCsv(results) ==
    [exists |-> TRUE,
     rows   |-> [i \in 1..Len(results) |->
                    [rank       |-> i,
                     npi        |-> results[i].npi,
                     score      |-> FormatMilli(results[i].overall_score),
                     num_flags  |-> Len(results[i].red_flags),
                     flag_types |-> {FlagTypeValue(results[i].red_flags[j].flag_type) :
                                        j \in 1..Len(results[i].red_flags)}]]]

\* cli.py lines 128-144: None without the file or without a row of the npi,
\* else the ScanResult of the first such row: no name, float(score), no flags.
_load_scan_result(csv, npi) ==
    LET First(hits) ==
            IF hits = <<>> THEN None
            ELSE <<[npi |-> npi, provider_name |-> "",
                    overall_score |-> FRat(hits[1].score, 1000), red_flags |-> <<>>]>>
    IN  IF ~csv.exists THEN None
        ELSE First(SelectSeq(csv.rows, LAMBDA row : row.npi = npi))

\* The providers of a file whose peer comparison is of a z-score that lies,
\* in exact terms, halfway between two hundredths.
DossierTies(file) ==
    {npi \in Npis(file.rows) :
        LET claims == load_claims_for_provider(file, npi)
        IN  _compare_to_peers(file, npi, claims, {}) # _compare_to_peers(file, npi, claims, {npi})}

\* The double z-score of the peer comparison of a provider lies on one side of
\* a value halfway between two hundredths, or on the other, where the file
\* leaves it open.
InitRounding == rounds_up \in SUBSET DossierTies(claims_file)

InitOutputs ==
    /\ InitRounding
    /\ volume_flags = NotCalled
    /\ revenue_flags = NotCalled
    /\ spike_flags = NotCalled
    /\ consistency_flags = NotCalled
    /\ runs = {}
    /\ dossier = NotBuilt
    /\ preprocessed = NotPreprocessed
    /\ scan_csv = NoCsv

\* A session whose two summary files exist, with the tables of the scan inputs.
Init ==
    /\ claims_file = EmptyFile
    /\ summaries_exist = TRUE
    /\ monthly_df \in ScanMonthlyInputs
    /\ procedure_df \in ScanProcedureInputs
    /\ FullSchema
    /\ InitOutputs

NoDetectorCalled ==
    /\ ~dossier.called
    /\ ~volume_flags.called
    /\ ~revenue_flags.called
    /\ ~spike_flags.called
    /\ ~consistency_flags.called

Fresh == NoDetectorCalled /\ runs = {} /\ ~preprocessed.called

\* What a call leaves alone: the inputs, and the two tables.
inputs == <<claims_file, rounds_up>>

tables == <<monthly_df, procedure_df, monthly_columns, procedure_columns, summaries_exist>>

CallDetectVolume ==
    /\ Fresh
    /\ volume_flags' = IF VolumeRaises(monthly_columns, monthly_df) # "none"
                       THEN Raised(VolumeRaises(monthly_columns, monthly_df))
                       ELSE Returned(_detect_volume_impossibility(monthly_df))
    /\ UNCHANGED <<inputs, tables, preprocessed, dossier, revenue_flags, spike_flags,
                   consistency_flags, runs, scan_csv>>

CallDetectRevenue ==
    /\ Fresh
    /\ revenue_flags' = IF RevenueRaises(monthly_columns, monthly_df) # "none"
                        THEN Raised(RevenueRaises(monthly_columns, monthly_df))
                        ELSE Returned(_detect_revenue_outliers(monthly_df))
    /\ UNCHANGED <<inputs, tables, preprocessed, dossier, volume_flags, spike_flags,
                   consistency_flags, runs, scan_csv>>

CallDetectSpikes ==
    /\ Fresh
    /\ spike_flags' = IF SpikeRaises(monthly_columns, monthly_df) # "none"
                      THEN Raised(SpikeRaises(monthly_columns, monthly_df))
                      ELSE Returned(_detect_billing_spikes(monthly_df))
    /\ UNCHANGED <<inputs, tables, preprocessed, dossier, volume_flags, revenue_flags,
                   consistency_flags, runs, scan_csv>>

CallDetectConsistency ==
    /\ Fresh
    /\ consistency_flags' =
          IF ConsistencyRaises(procedure_columns, procedure_df) # "none"
          THEN Raised(ConsistencyRaises(procedure_columns, procedure_df))
          ELSE Returned(_detect_suspicious_consistency(procedure_df))
    /\ UNCHANGED <<inputs, tables, preprocessed, dossier, volume_flags, revenue_flags,
                   spike_flags, runs, scan_csv>>

\* Lines 82-86: all_npis is a set of strings, and the loop of line 86 visits
\* it in the order that the string hashes of the process give it. Every run
\* of the scan command is a process of its own, with hashes of its own, so
\* the order is any order of the set, and two runs need not agree on it.
\* visit is such an order, as the places of the providers in scored.
VisitOrders(scored) == Permutations(1..Len(scored))

\* The providers that the loop of line 86 scores when it visits them in the
\* order visit, from those it scores when it visits them by ascending npi.
Visited(scored, visit) == [i \in 1..Len(scored) |-> scored[visit[i]]]

\* The lists scan_all can return with the threshold, over all orders of the
\* visit: lines 108-113 on the providers in each order.
ListsReturned(scored, threshold) ==
    {ThresholdAndSort(Visited(scored, visit), threshold) : visit \in VisitOrders(scored)}

\* The outcomes of the calls that raise nothing, for every threshold of T.
OutcomesListed(scored, T) ==
    UNION {{[threshold |-> threshold, error |-> "none", results |-> results] :
               results \in ListsReturned(scored, threshold)} : threshold \in T}

\* The outcomes of the calls that raise the exception error.
OutcomesRaised(error, T) ==
    {[threshold |-> threshold, error |-> error, results |-> <<>>] : threshold \in T}

\* The outcome of one call of scan_all on the two tables in a process of its
\* own, for every threshold of T: the exception it raises, or a list it
\* returns. What the call computes before line 108 is the same for every
\* threshold, and but for the order of the visit the same in every process.
ScanOutcomes(mcols, pcols, mdf, pdf, T) ==
    IF ScanRaises(mcols, pcols, mdf, pdf) # "none"
    THEN OutcomesRaised(ScanRaises(mcols, pcols, mdf, pdf), T)
    ELSE OutcomesListed(Frame(ScoredProviders(mdf, pdf, NpiAscending)), T)

\* The thresholds a caller passes to scan_all, 0.0, the default 0.3, 0.7 and
\* 0.9: the values with which line 108 compares the double overall_score.
Thresholds ==
    {FZero,
     DEFAULT_THRESHOLD,
     [sign |-> 1, exp |-> -53, sig |-> <<9830, 6553, 9830, 1433>>],
     [sign |-> 1, exp |-> -53, sig |-> <<3277, 13107, 3276, 1843>>]}

\* What a scan command leaves behind: the run, and scan_results.csv, written
\* anew (cli.py lines 55-67) unless scan_all raised.
Scanned(run, earlier) ==
    /\ runs' = earlier \cup {run}
    /\ scan_csv' = IF run.error # "none" THEN scan_csv ELSE WriteCsv(run.results)

\* cli.py lines 43-53 with the summary files: scan_all reads the two tables
\* (lines 32-33).
ScanSummaries ==
    /\ summaries_exist
    /\ \E run \in ScanOutcomes(monthly_columns, procedure_columns, monthly_df,
                              procedure_df, Thresholds) :
          Scanned(run, runs)
    /\ UNCHANGED tables

\* cli.py lines 43-53 without them: scan_all aggregates the dataset itself
\* (lines 36-51) into the two tables, whose rows polars gives in any order,
\* or raises at line 44.
ScanDataset ==
    /\ ~summaries_exist
    /\ IF AggregateError(claims_file) # "none"
       THEN /\ \E threshold \in Thresholds :
                  Scanned([threshold |-> threshold, error |-> AggregateError(claims_file),
                           results |-> <<>>], runs)
            /\ UNCHANGED tables
       ELSE \E mg \in SetOrders(MonthlyGroups(claims_file.rows)),
               pg \in SetOrders(ProcedureGroups(claims_file.rows)) :
               /\ monthly_df' = AggregateMonthly(claims_file.rows, mg)
               /\ procedure_df' = AggregateProcedure(claims_file.rows, pg)
               /\ monthly_columns' = MonthlyColumns
               /\ procedure_columns' = ProcedureColumns
               /\ UNCHANGED summaries_exist
               /\ \E run \in ScanOutcomes(MonthlyColumns, ProcedureColumns, monthly_df',
                                         procedure_df', Thresholds) :
                     Scanned(run, IF <<monthly_df', procedure_df'>> = <<monthly_df, procedure_df>>
                                  THEN runs ELSE {})

\* One run of the scan command (cli.py lines 38-67), a process of its own,
\* with a threshold of Thresholds; runs holds the runs on the two tables as
\* they are.
ScanAll ==
    /\ NoDetectorCalled
    /\ Cardinality(runs) < MaxScans
    /\ ScanSummaries \/ ScanDataset
    /\ UNCHANGED <<inputs, preprocessed, dossier, volume_flags, revenue_flags,
                   spike_flags, consistency_flags>>

\* One call of preprocess on the dataset, once in a session, between the scans
\* or ahead of them: it raises at line 94 and writes nothing, or it writes the
\* two tables anew (lines 96 and 107), and runs begins again.
Preprocess ==
    /\ NoDetectorCalled
    /\ ~preprocessed.called
    /\ IF PreprocessError(claims_file) # "none"
       THEN /\ preprocessed' = [called |-> TRUE, error |-> PreprocessError(claims_file)]
            /\ UNCHANGED <<tables, runs>>
       ELSE /\ preprocessed' = [called |-> TRUE, error |-> "none"]
            /\ monthly_df' = PreprocessMonthly(claims_file.rows)
            /\ procedure_df' = PreprocessProcedure(claims_file.rows)
            /\ monthly_columns' = PreprocessedMonthlyColumns
            /\ procedure_columns' = ProcedureColumns
            /\ summaries_exist' = TRUE
            /\ runs' = {}
    /\ UNCHANGED <<inputs, dossier, volume_flags, revenue_flags, spike_flags,
                   consistency_flags, scan_csv>>

\* An npi that no file holds.
UnknownNpi == "p5"

\* The overall_score 0.85 of test_dossier_with_scan_result.
TestScore == [sign |-> 1, exp |-> -53, sig |-> <<13107, 3276, 13107, 1740>>]

\* The ScanResult arguments of a call of build_dossier for npi: the one the
\* profile command loads (cli.py line 91); None; the one of
\* test_dossier_with_scan_result.
ScanResultArgs(csv, npi) ==
    {_load_scan_result(csv, npi),
     None,
     <<[npi |-> npi, provider_name |-> "Volume Provider", overall_score |-> TestScore,
        red_flags |-> <<>>]>>}

\* One call of build_dossier on the session's file, for a provider of the file
\* or for one the file does not hold, with or without a ScanResult.
BuildDossier ==
    /\ NoDetectorCalled
    /\ \E npi \in Npis(claims_file.rows) \cup {UnknownNpi} :
       \E scan_result \in ScanResultArgs(scan_csv, npi) :
          dossier' = IF BuildDossierError(claims_file, npi) # "none"
                     THEN BuildRaised(npi, BuildDossierError(claims_file, npi))
                     ELSE Built(npi, build_dossier(claims_file, npi, scan_result, rounds_up))
    /\ UNCHANGED <<inputs, tables, preprocessed, volume_flags, revenue_flags, spike_flags,
                   consistency_flags, runs, scan_csv>>

Next ==
    \/ Preprocess
    \/ BuildDossier
    \/ CallDetectVolume
    \/ CallDetectRevenue
    \/ CallDetectSpikes
    \/ CallDetectConsistency
    \/ ScanAll

Spec == Init /\ [][Next]_vars

\* All flags of a dict of flags, and all flags the session has seen: those of
\* the direct calls of the detectors and those of the results of the scans.
FlagsIn(flags) == UNION {Range(flags[npi]) : npi \in DOMAIN flags}

AllFlagsSeen ==
    FlagsIn(volume_flags.flags) \cup FlagsIn(revenue_flags.flags)
    \cup FlagsIn(spike_flags.flags) \cup FlagsIn(consistency_flags.flags)
    \cup UNION {UNION {Range(run.results[i].red_flags) : i \in 1..Len(run.results)} :
                   run \in runs}

----------------------------------------------------------------------------
(* Inputs and specification for the volume detector.                       *)

\* Monthly rows <<claims, paid>>: claim counts at the ceiling, just above it,
\* at twice the ceiling and above three times the ceiling.
VolumeMonths == {<<1500, 100000>>, <<1501, 100000>>, <<3000, 100000>>, <<5000, 100000>>}

\* Six months of 1,500 claims and a seventh month of 5,000 claims for p1, and
\* two months of 1,500 claims for p2.
SixAtCeilingThenSpike ==
    MonthlyTable(<< << <<1500, 10000>>, <<1500, 10000>>, <<1500, 10000>>, <<1500, 10000>>,
                       <<1500, 10000>>, <<1500, 10000>>, <<5000, 500000>> >>,
                    << <<1500, 100000>>, <<1500, 100000>> >>, <<>> >>)

VolumeMonthlyInputs ==
    {MonthlyTable(<<h1, h2, <<>> >>) :
        h1 \in SeqsUpTo(VolumeMonths, MaxMonths),
        h2 \in {<<>>, << <<1501, 40000>> >>, << <<1000, 100000>>, <<0, 0>> >>}}
    \cup {SixAtCeilingThenSpike}

InitVolume ==
    /\ claims_file = EmptyFile
    /\ summaries_exist = TRUE
    /\ monthly_df \in VolumeMonthlyInputs
    /\ procedure_df = <<>>
    /\ FullSchema
    /\ InitOutputs

SpecVolume == InitVolume /\ [][Next]_vars

\* The indices of the rows of provider npi with more claims than the ceiling.
RowsAboveCeiling(npi) ==
    {i \in 1..Len(monthly_df) :
        monthly_df[i].npi = npi /\ monthly_df[i].total_claims > 1500}

\* s is the double min(1, count / 4500).
IsVolumeSeverity(s, count) ==
    IF count >= 4500 THEN s = FOne ELSE s = FRat(count, 4500)

\* C1: after _detect_volume_impossibility, every provider that has m > 0 rows
\* with claim_count > 1500 is a key of the output with exactly m flags, one per
\* such row: each row has one VOLUME_IMPOSSIBILITY flag naming its month, of
\* severity min(1, claim_count / 4500).
C1_VolumeFlagPerMonth ==
    volume_flags.called =>
        \A npi \in Entities :
            LET above == RowsAboveCeiling(npi)
                fl    == volume_flags.flags
            IN  above # {} =>
                    /\ npi \in DOMAIN fl
                    /\ Len(fl[npi]) = Cardinality(above)
                    /\ \A i \in above :
                          Cardinality({j \in 1..Len(fl[npi]) :
                              /\ fl[npi][j].flag_type = "VOLUME_IMPOSSIBILITY"
                              /\ fl[npi][j].evidence.month = monthly_df[i].service_month
                              /\ fl[npi][j].evidence.claims = monthly_df[i].total_claims
                              /\ IsVolumeSeverity(fl[npi][j].severity,
                                                  monthly_df[i].total_claims)}) = 1

\* Witness of C1: the detector has run on a table where one provider has three
\* months above the ceiling, of severities below 1 and equal to 1.
C1_Witness ==
    /\ volume_flags.called
    /\ \E npi \in DOMAIN volume_flags.flags :
          LET f == volume_flags.flags[npi]
          IN  /\ Len(f) = 3
              /\ \E j, k \in 1..Len(f) :
                    f[j].severity = FOne /\ f[k].severity = FRat(1501, 4500)

\* C2: a provider with claim_count <= 1500 in every month is not a key of the
\* output of _detect_volume_impossibility (1500 itself is not flagged); on six
\* months of 1,500 claims followed by a month of 5,000 claims the output is
\* exactly one flag, for the seventh month, of severity 1.
C2_NoFlagAtOrBelowCeiling ==
    volume_flags.called =>
        /\ \A npi \in Entities :
              (\A i \in 1..Len(monthly_df) :
                  monthly_df[i].npi = npi => monthly_df[i].total_claims <= 1500)
              => npi \notin DOMAIN volume_flags.flags
        /\ monthly_df = SixAtCeilingThenSpike =>
              /\ DOMAIN volume_flags.flags = {"p1"}
              /\ Len(volume_flags.flags["p1"]) = 1
              /\ volume_flags.flags["p1"][1].evidence.month = 7
              /\ volume_flags.flags["p1"][1].severity = FOne

\* Witness of C2: the detector has run on the seven-month table, where p2 has
\* only months at the ceiling and is not flagged while p1 is.
C2_Witness ==
    /\ volume_flags.called
    /\ monthly_df = SixAtCeilingThenSpike
    /\ "p2" \in Npis(monthly_df)
    /\ "p2" \notin DOMAIN volume_flags.flags
    /\ "p1" \in DOMAIN volume_flags.flags

----------------------------------------------------------------------------
(* Claims about scan_all, under Spec.                                      *)

\* The paid amount of a provider summed over all its rows of monthly_df.
TotalPaid(npi) ==
    LET idx == {i \in 1..Len(monthly_df) : monthly_df[i].npi = npi}
        paid[S \in SUBSET idx] ==
            IF S = {} THEN 0
            ELSE LET i == CHOOSE j \in S : TRUE
                 IN  monthly_df[i].total_paid + paid[S \ {i}]
    IN  paid[idx]

ResultNpis(run) == {run.results[i].npi : i \in 1..Len(run.results)}

\* The severities and the kinds of a result's flags.
Severities(result) == {result.red_flags[i].severity : i \in 1..Len(result.red_flags)}

Kinds(result) == {result.red_flags[i].flag_type : i \in 1..Len(result.red_flags)}

\* min(1, 0.5*s + 0.2*k) in double arithmetic.
ScoreOf(s, k) == FMin(FOne, FAdd(FMul(FRat(1, 2), s), FMul(FRat(1, 5), FInt(k))))

\* The providers of two tables that have every column as the loop of line 86
\* scores them, in each of the orders in which a process may visit them.
InAnyOrder(scored) == {Visited(scored, visit) : visit \in VisitOrders(scored)}

ScoredInAnyOrder(monthly, procedure) ==
    InAnyOrder(Frame(ScoredProviders(monthly, procedure, NpiAscending)))

\* The lists that scan_all can return on two such tables with the threshold,
\* over those orders.
ScanLists(monthly, procedure, threshold) ==
    ListsReturned(Frame(ScoredProviders(monthly, procedure, NpiAscending)), threshold)

\* C3: every result of scan_all has overall_score = min(1, 0.5*s + 0.2*k), with
\* s the largest severity among its flags and k the number of distinct kinds of
\* its flags, and the score lies in [0,1]. The formula is evaluated in the
\* double arithmetic in which the program holds severities and scores.
C3_ScoreFormula ==
    \A run \in runs : \A i \in 1..Len(run.results) :
        LET r == run.results[i]
            k == Cardinality(Kinds(r))
        IN  /\ r.red_flags # <<>>
            /\ \E s \in Severities(r) :
                  /\ \A t \in Severities(r) : FLeq(t, s)
                  /\ r.overall_score = ScoreOf(s, k)
            /\ FLeq(FZero, r.overall_score)
            /\ FLeq(r.overall_score, FOne)

\* Witness of C3: a scan returned a provider with flags of two kinds and of
\* severities 2/3 and 1, scored 0.5*1 + 0.2*2 = 0.9.
C3_Witness ==
    \E run \in runs : \E i \in 1..Len(run.results) :
        /\ Cardinality(Kinds(run.results[i])) = 2
        /\ Severities(run.results[i]) = {FRat(2, 3), FOne}
        /\ run.results[i].overall_score = FRat(9, 10)

\* C4: no result of scan_all, for any threshold, is for a provider whose paid
\* amount summed over all months is below 100,000; a provider whose total is
\* exactly 100,000 and that has a month above the volume ceiling is returned
\* by a scan of threshold 0.
C4_BelowMinimumNeverReturned ==
    \A run \in runs :
        /\ \A npi \in ResultNpis(run) : TotalPaid(npi) >= 100000
        /\ run.threshold = FZero =>
              \A npi \in Entities :
                  (TotalPaid(npi) = 100000 /\ RowsAboveCeiling(npi) # {})
                  => npi \in ResultNpis(run)

\* Witness of C4: a scan of threshold 0 returned a provider whose total is
\* exactly 100,000, and left out a provider with a total below 100,000 that has
\* a month above the volume ceiling and a dominant amount in procedure_df.
C4_Witness ==
    \E run \in runs :
        /\ run.threshold = FZero
        /\ \E npi \in ResultNpis(run) : TotalPaid(npi) = 100000
        /\ \E npi \in Npis(monthly_df) \ ResultNpis(run) :
              /\ TotalPaid(npi) < 100000
              /\ RowsAboveCeiling(npi) # {}
              /\ npi \in DOMAIN _detect_suspicious_consistency(procedure_df)

\* The <<npi, overall_score>> pairs of a run.
Scored(run) == {<<run.results[i].npi, run.results[i].overall_score>> : i \in 1..Len(run.results)}

\* C5: for two scans of the same tables with thresholds t1 <= t2, the results of
\* the scan with t2 are exactly the results of the scan with t1 whose
\* overall_score is >= t2, with the same scores: a subset, nothing below t2,
\* and a provider scoring exactly t2 is kept.
C5_ThresholdFilters ==
    \A r1, r2 \in runs :
        FLeq(r1.threshold, r2.threshold) =>
            /\ ResultNpis(r2) \subseteq ResultNpis(r1)
            /\ Scored(r2) = {p \in Scored(r1) : FLeq(r2.threshold, p[2])}
            /\ \A i \in 1..Len(r2.results) : FLeq(r2.threshold, r2.results[i].overall_score)

\* Witness of C5: two scans with thresholds t1 < t2, where the first returned a
\* provider scoring exactly t2, which the second kept, and a provider scoring
\* below t2, which the second dropped.
C5_Witness ==
    \E r1, r2 \in runs :
        /\ FLess(r1.threshold, r2.threshold)
        /\ \E p \in Scored(r1) : p[2] = r2.threshold /\ p \in Scored(r2)
        /\ \E p \in Scored(r1) : FLess(p[2], r2.threshold) /\ p \notin Scored(r2)

\* C6: the results of scan_all are in descending order of overall_score.
C6_SortedDescending ==
    \A run \in runs : \A i \in 1..Len(run.results) - 1 :
        FLeq(run.results[i + 1].overall_score, run.results[i].overall_score)

\* Witness of C6: a scan returned three providers, not all of the same score,
\* and a visit by ascending npi would not have met them best first.
C6_Witness ==
    \E run \in runs :
        /\ Len(run.results) = 3
        /\ FLess(run.results[3].overall_score, run.results[1].overall_score)
        /\ run.results[1].npi # IterationOrder(ResultNpis(run), NpiAscending)[1]

\* C7 (not met by the code): results of equal overall_score are in ascending
\* order of npi.
C7_TiesByNpiAscending ==
    \A run \in runs : \A i, j \in 1..Len(run.results) :
        (i < j /\ run.results[i].overall_score = run.results[j].overall_score)
        => NpiIndex(run.results[i].npi) < NpiIndex(run.results[j].npi)

----------------------------------------------------------------------------
(* Inputs and specification for the revenue detector.                      *)

\* Monthly rows <<claims, paid>>: a month paid without claims, two ordinary
\* months, a month of high price.
RevenueMonths == {<<0, 50000>>, <<1000, 100000>>, <<1000, 110000>>, <<500, 250000>>}

\* The other providers, each with one month: none; two of equal price; three or
\* four of prices 99 to 110 per claim; one without claims beside two others.
RevenuePeers ==
    {<< <<>>, <<>>, <<>>, <<>> >>,
     << << <<1000, 100000>> >>, << <<1000, 100000>> >>, <<>>, <<>> >>,
     << << <<1000, 99000>> >>, << <<1000, 100000>> >>, << <<1000, 101000>> >>, <<>> >>,
     << << <<1000, 99000>> >>, << <<1000, 100000>> >>, << <<1000, 101000>> >>,
        << <<1000, 110000>> >> >>,
     << << <<0, 70000>> >>, << <<1000, 99000>> >>, << <<1000, 100000>> >>, <<>> >>}

\* A table where the modified z-score of p5 is 3 in exact arithmetic, and the
\* paid per claim of p1 is 0.
ZscoreThreeNinths == OneMonthEach(9, <<0, 35000, 70000, 105000, 225673>>)

RevenueMonthlyInputs ==
    {MonthlyTable(<<h1>> \o peers) :
        h1 \in SeqsUpTo(RevenueMonths, MaxMonths), peers \in RevenuePeers}
    \cup {ZscoreThreeNinths, ZscoreThree(3), ZscoreTen(3)}

InitRevenue ==
    /\ claims_file = EmptyFile
    /\ summaries_exist = TRUE
    /\ monthly_df \in RevenueMonthlyInputs
    /\ procedure_df = <<>>
    /\ FullSchema
    /\ InitOutputs

SpecRevenue == InitRevenue /\ [][Next]_vars

\* The claim count of a provider summed over all its rows of monthly_df.
TotalClaims(npi) ==
    LET idx == {i \in 1..Len(monthly_df) : monthly_df[i].npi = npi}
        claims[S \in SUBSET idx] ==
            IF S = {} THEN 0
            ELSE LET i == CHOOSE j \in S : TRUE
                 IN  monthly_df[i].total_claims + claims[S \ {i}]
    IN  claims[idx]

\* The providers with a positive total claim count, and their paid per claim.
Population == {npi \in Npis(monthly_df) : TotalClaims(npi) > 0}

PaidPerClaim == [npi \in Population |-> FRat(TotalPaid(npi), TotalClaims(npi))]

\* The k-th smallest value of f over its domain, counted with multiplicity.
KthSmallest(f, k) ==
    CHOOSE x \in {f[p] : p \in DOMAIN f} :
        /\ Cardinality({p \in DOMAIN f : FLess(f[p], x)}) < k
        /\ Cardinality({p \in DOMAIN f : FLeq(f[p], x)}) >= k

\* The median of f over its non-empty domain: the middle value, or the value
\* half-way between the two middle values.
MedianOf(f) ==
    LET n == Cardinality(DOMAIN f)
    IN  LinearInterpol(KthSmallest(f, (n + 1) \div 2), KthSmallest(f, n \div 2 + 1))

PopulationMedian == MedianOf(PaidPerClaim)

\* The median absolute deviation from the median, unscaled.
PopulationMad ==
    LET med == PopulationMedian
    IN  MedianOf([npi \in Population |-> FAbs(FSub(PaidPerClaim[npi], med))])

\* z = (paid_per_claim - median) / (1.4826 * MAD) of a provider of the
\* population, for a MAD above zero.
PopulationZscore ==
    LET med    == PopulationMedian
        scaled == FMul(PopulationMad, FRat(7413, 5000))
    IN  [npi \in Population |-> FDiv(FSub(PaidPerClaim[npi], med), scaled)]

\* C8: when the population of providers with a positive total claim count has
\* a MAD above zero, the keys of the output of _detect_revenue_outliers are
\* exactly the providers of the population with z > 3, where z is taken from
\* the median and the 1.4826-scaled MAD of paid per claim over the population;
\* each has one REVENUE_OUTLIER flag of severity min(1, z / 10), and of two
\* flagged providers the one with the larger z has no smaller severity.
\* Providers without claims are never keys. The values are those of double
\* arithmetic.
C8_RevenueOutlierRule ==
    (revenue_flags.called /\ revenue_flags.error = "none") =>
        LET fl == revenue_flags.flags
        IN  /\ DOMAIN fl \subseteq Population
            /\ (Population # {} /\ PopulationMad # FZero) =>
                  LET z == PopulationZscore
                  IN  /\ DOMAIN fl = {npi \in Population : FLess(FInt(3), z[npi])}
                      /\ \A npi \in DOMAIN fl :
                            /\ Len(fl[npi]) = 1
                            /\ fl[npi][1].flag_type = "REVENUE_OUTLIER"
                            /\ fl[npi][1].severity = FMin(FOne, FDiv(z[npi], FInt(10)))
                      /\ \A a, b \in DOMAIN fl :
                            FLeq(z[a], z[b]) => FLeq(fl[a][1].severity, fl[b][1].severity)

\* Witness of C8: the detector flagged two providers, one with a severity below
\* 1 and one with severity 1, on a table that also has a provider without
\* claims and a provider of the population that is not flagged.
C8_Witness ==
    /\ revenue_flags.called
    /\ \E a, b \in DOMAIN revenue_flags.flags :
          /\ FLess(revenue_flags.flags[a][1].severity, FOne)
          /\ revenue_flags.flags[b][1].severity = FOne
    /\ Population \ DOMAIN revenue_flags.flags # {}

\* C9: when no provider has a positive total claim count, or the MAD of paid
\* per claim over those providers is zero, _detect_revenue_outliers raises
\* nothing and returns no flags.
C9_NoFlagsWithoutDispersion ==
    (revenue_flags.called /\ (Population = {} \/ PopulationMad = FZero)) =>
        /\ revenue_flags.error = "none"
        /\ revenue_flags.flags = EmptyDict

\* Witness of C9: the detector ran on a table whose population has MAD zero and
\* a provider whose paid per claim is at least four times the median.
C9_Witness ==
    /\ revenue_flags.called
    /\ Population # {}
    /\ PopulationMad = FZero
    /\ \E npi \in Population :
          FLeq(FMul(FInt(4), PopulationMedian), PaidPerClaim[npi])

\* The factors by which an entity's volume is multiplied.
ScaleFactors == {2, 3, 7}

\* The table with the claims and the paid amount of every row of npi multiplied by k.
ScaleEntity(df, npi, k) ==
    [i \in 1..Len(df) |->
        IF df[i].npi = npi
        THEN [df[i] EXCEPT !.total_claims = @ * k, !.total_paid = @ * k]
        ELSE df[i]]

\* Which entities a dict of flags holds, and with what severities.
FlaggedSeverities(flags) ==
    [npi \in DOMAIN flags |-> [i \in 1..Len(flags[npi]) |-> flags[npi][i].severity]]

\* C24: multiplying the total claims and the total paid of one entity by the
\* same positive factor changes neither which entities _detect_revenue_outliers
\* flags nor their severities.
C24_RevenueScaleInvariant ==
    (revenue_flags.called /\ revenue_flags.error = "none") =>
        \A npi \in Npis(monthly_df), k \in ScaleFactors :
            LET scaled == ScaleEntity(monthly_df, npi, k)
            IN  /\ RevenueError(scaled) = "none"
                /\ FlaggedSeverities(_detect_revenue_outliers(scaled))
                      = FlaggedSeverities(revenue_flags.flags)

\* Witness of C24: the detector flagged an entity with a severity below 1 and
\* left another of the population unflagged, and with the flagged entity's
\* volume tripled the flag differs in its evidence only.
C24_Witness ==
    /\ revenue_flags.called
    /\ Population \ DOMAIN revenue_flags.flags # {}
    /\ \E npi \in DOMAIN revenue_flags.flags :
          LET after == _detect_revenue_outliers(ScaleEntity(monthly_df, npi, 3))
          IN  /\ FLess(revenue_flags.flags[npi][1].severity, FOne)
              /\ after # revenue_flags.flags
              /\ after[npi][1].evidence.total_claims = 3 * TotalClaims(npi)
              /\ after[npi][1].severity = revenue_flags.flags[npi][1].severity

----------------------------------------------------------------------------
(* Inputs and specification for the spike detector.                        *)

\* Monthly rows <<claims, paid>>: a large month, two months of net refunds,
\* a month without payments.
SpikeMonths == {<<10, 600000>>, <<10, -400000>>, <<10, -250000>>, <<10, 0>>}

\* Five months without payments and a sixth of 100,000.
FiveIdleThenOne ==
    << <<10, 0>>, <<10, 0>>, <<10, 0>>, <<10, 0>>, <<10, 0>>, <<10, 100000>> >>

\* Three months whose mean is 100,000, the first being exactly five times it.
AtFiveTimesMean == << <<10, 500000>>, <<10, -200000>>, <<10, 0>> >>

\* k months without payments.
IdleMonths(k) == [i \in 1..k |-> <<10, 0>>]

\* One paid month of five, two of ten and two of eleven, the others idle: each
\* paid month is 5, 5 and 5.5 times the mean.
OneOfFive == IdleMonths(4) \o << <<10, 100000>> >>

TwoOfTen == IdleMonths(8) \o << <<10, 100000>>, <<10, 100000>> >>

TwoOfEleven == IdleMonths(9) \o << <<10, 100000>>, <<10, 100000>> >>

SpikeMonthlyInputs ==
    {MonthlyTable(<<h1, h2>>) :
        h1 \in SeqsUpTo(SpikeMonths, MaxMonths),
        h2 \in {<<>>, FiveIdleThenOne, AtFiveTimesMean, OneOfFive, TwoOfTen, TwoOfEleven}}

InitSpike ==
    /\ claims_file = EmptyFile
    /\ summaries_exist = TRUE
    /\ monthly_df \in SpikeMonthlyInputs
    /\ procedure_df = <<>>
    /\ FullSchema
    /\ InitOutputs

SpecSpike == InitSpike /\ [][Next]_vars

\* The number of rows, one per month, of a provider in monthly_df.
MonthsOfHistory(npi) == Cardinality({i \in 1..Len(monthly_df) : monthly_df[i].npi = npi})

\* C10: every key of the output of _detect_billing_spikes is a provider with
\* at least 3 months in monthly_df.
C10_NoSpikeUnderThreeMonths ==
    (spike_flags.called /\ spike_flags.error = "none") =>
        \A npi \in DOMAIN spike_flags.flags : MonthsOfHistory(npi) >= 3

\* Witness of C10: the detector ran on a table where a provider with two months
\* has a month above five times its positive mean and is not flagged, while
\* another provider is flagged.
C10_Witness ==
    /\ spike_flags.called
    /\ spike_flags.flags # EmptyDict
    /\ \E npi \in Npis(monthly_df) \ DOMAIN spike_flags.flags :
          /\ MonthsOfHistory(npi) = 2
          /\ TotalPaid(npi) > 0
          /\ \E i \in 1..Len(monthly_df) :
                /\ monthly_df[i].npi = npi
                /\ monthly_df[i].total_paid * 2 > 5 * TotalPaid(npi)

\* The rows of provider npi in monthly_df, as indices.
MonthRows(npi) == {i \in 1..Len(monthly_df) : monthly_df[i].npi = npi}

\* Row i of provider npi is above five times the provider's mean: with n months
\* of total t # 0, paid / (t / n) > 5, that is paid * n > 5 * t for t > 0 and
\* paid * n < 5 * t for t < 0.
AboveFiveTimesMean(npi, i) ==
    LET n == MonthsOfHistory(npi)
        t == TotalPaid(npi)
    IN  IF t > 0 THEN monthly_df[i].total_paid * n > 5 * t
        ELSE monthly_df[i].total_paid * n < 5 * t

\* min(1, ratio / 10) for row i of provider npi, with ratio = paid / mean and
\* mean = t / n, in double arithmetic.
SpikeSeverityOf(npi, i) ==
    LET mean  == FRat(TotalPaid(npi), MonthsOfHistory(npi))
        ratio == FDiv(FInt(monthly_df[i].total_paid), mean)
    IN  FMin(FOne, FDiv(ratio, FInt(10)))

SpikeFlagCount(npi) ==
    IF npi \in DOMAIN spike_flags.flags THEN Len(spike_flags.flags[npi]) ELSE 0

----------------------------------------------------------------------------
(* Inputs and specification for the consistency detector.                  *)

\* Distinct paid amounts of one provider in the procedure table.
MaxAmounts == 3

\* Procedure rows <<paid amount, row_count>>: one or fifty rows of amount zero,
\* and non-zero amounts on 29, 40, 4, 1, 27 and 3 rows.
ConsistencyAmounts ==
    {<<0, 1>>, <<0, 50>>, <<100, 29>>, <<100, 40>>, <<50, 4>>, <<50, 1>>, <<80, 27>>, <<20, 3>>}

\* The rows of one provider: group_by(["npi", "total_paid"]) at lines 48-49
\* gives each provider one row per paid amount.
AmountLists ==
    {a \in SeqsUpTo(ConsistencyAmounts, MaxAmounts) :
        \A i, j \in 1..Len(a) : i # j => a[i][1] # a[j][1]}

\* The second provider has no rows, or one amount on all 30 non-zero rows
\* beside 100 rows of amount zero, or one amount on 27 of 30 rows.
ConsistencyProcedureInputs ==
    {ProcedureTable(<<a1, a2>>) :
        a1 \in AmountLists,
        a2 \in {<<>>, << <<75, 30>>, <<0, 100>> >>, << <<20, 3>>, <<80, 27>> >>}}

InitConsistency ==
    /\ claims_file = EmptyFile
    /\ summaries_exist = TRUE
    /\ monthly_df = <<>>
    /\ procedure_df \in ConsistencyProcedureInputs
    /\ FullSchema
    /\ InitOutputs

SpecConsistency == InitConsistency /\ [][Next]_vars

\* The rows of provider npi in procedure_df with a paid amount other than zero.
NonZeroAmountRows(npi) ==
    {i \in 1..Len(procedure_df) :
        procedure_df[i].npi = npi /\ procedure_df[i].total_paid # 0}

\* The sum of row_count over the rows of procedure_df whose index is in S.
RowCountOver(S) ==
    LET f[k \in 0..Len(procedure_df)] ==
            IF k = 0 THEN 0
            ELSE f[k - 1] + (IF k \in S THEN procedure_df[k].row_count ELSE 0)
    IN  f[Len(procedure_df)]

\* C12: _detect_suspicious_consistency never flags a provider whose row_count
\* summed over its rows of non-zero paid amount is below 30, whatever its rows
\* of amount zero; and the total_rows and the top amount of every flag are
\* those of the provider's non-zero rows: total_rows is their sum, and the top
\* amount is a non-zero amount of the provider.
C12_ZeroRowsExcluded ==
    (consistency_flags.called /\ consistency_flags.error = "none") =>
        /\ \A npi \in Entities :
              RowCountOver(NonZeroAmountRows(npi)) < 30
              => npi \notin DOMAIN consistency_flags.flags
        /\ \A npi \in DOMAIN consistency_flags.flags :
              \A j \in 1..Len(consistency_flags.flags[npi]) :
                  LET ev == consistency_flags.flags[npi][j].evidence
                  IN  /\ ev.total_rows = RowCountOver(NonZeroAmountRows(npi))
                      /\ ev.top_amount # 0
                      /\ \E i \in NonZeroAmountRows(npi) :
                            procedure_df[i].total_paid = ev.top_amount

\* Witness of C12: the detector ran on a table where a provider with 29
\* non-zero rows at one amount and a row of amount zero is not flagged, and a
\* provider with 100 rows of amount zero is flagged on its 30 non-zero rows.
C12_Witness ==
    /\ consistency_flags.called
    /\ \E npi \in Npis(procedure_df) \ DOMAIN consistency_flags.flags :
          /\ RowCountOver(NonZeroAmountRows(npi)) = 29
          /\ Cardinality(NonZeroAmountRows(npi)) = 1
          /\ \E i \in 1..Len(procedure_df) :
                procedure_df[i].npi = npi /\ procedure_df[i].total_paid = 0
    /\ \E npi \in DOMAIN consistency_flags.flags :
          /\ consistency_flags.flags[npi][1].evidence.total_rows = 30
          /\ \E i \in 1..Len(procedure_df) :
                /\ procedure_df[i].npi = npi
                /\ procedure_df[i].total_paid = 0
                /\ procedure_df[i].row_count = 100

\* The largest row_count among the non-zero rows of provider npi (which has one).
TopAmountCount(npi) ==
    CHOOSE c \in {procedure_df[i].row_count : i \in NonZeroAmountRows(npi)} :
        \A i \in NonZeroAmountRows(npi) : procedure_df[i].row_count <= c

\* C13: a provider whose non-zero rows sum to total_rows >= 30 is a key of the
\* output of _detect_suspicious_consistency exactly when the largest row_count
\* among its non-zero amounts, divided by total_rows, is strictly above 0.9;
\* it then has exactly one flag, SUSPICIOUS_CONSISTENCY, whose severity is
\* that ratio, as a double. With 40 of 44 rows at one amount the severity is
\* 40/44.
C13_ConsistencyRule ==
    (consistency_flags.called /\ consistency_flags.error = "none") =>
        \A npi \in Entities :
            LET total == RowCountOver(NonZeroAmountRows(npi))
                top   == TopAmountCount(npi)
                fl    == consistency_flags.flags
            IN  total >= 30 =>
                    /\ (npi \in DOMAIN fl) = (top * 10 > 9 * total)
                    /\ npi \in DOMAIN fl =>
                          /\ Len(fl[npi]) = 1
                          /\ fl[npi][1].flag_type = "SUSPICIOUS_CONSISTENCY"
                          /\ fl[npi][1].severity = FRat(top, total)
                    /\ (top = 40 /\ total = 44) =>
                          /\ npi \in DOMAIN fl
                          /\ fl[npi][1].severity = FRat(10, 11)

\* Witness of C13: the detector ran on a table where a provider with 40 of 44
\* rows at one amount, listed after its smaller amount, is flagged with
\* severity 10/11, and a provider with 27 of 30 rows at one amount is not.
C13_Witness ==
    /\ consistency_flags.called
    /\ \E npi \in DOMAIN consistency_flags.flags :
          /\ consistency_flags.flags[npi][1].severity = FRat(10, 11)
          /\ RowCountOver(NonZeroAmountRows(npi)) = 44
          /\ \E i, k \in NonZeroAmountRows(npi) :
                i < k /\ procedure_df[i].row_count = 4 /\ procedure_df[k].row_count = 40
    /\ \E npi \in Npis(procedure_df) \ DOMAIN consistency_flags.flags :
          /\ RowCountOver(NonZeroAmountRows(npi)) = 30
          /\ TopAmountCount(npi) = 27

----------------------------------------------------------------------------
(* Inputs and specification for the fusion of the four detectors' flags in *)
(* scan_all: tables on which providers draw flags of several kinds.        *)

\* Monthly rows <<claims, paid>> at 70 per claim: a month of impossible volume
\* and an ordinary month.
FusionMonths == {<<5000, 350000>>, <<1000, 70000>>}

\* Three months of impossible volume at 69 per claim.
ThreeVolumeMonths == << <<5000, 345000>>, <<5000, 345000>>, <<5000, 345000>> >>

\* A month of 1600 claims that is a little above five times the mean of six
\* months: a volume flag of severity 16/45 and a spike flag of severity 28/55.
ModestThreeKinds ==
    << <<1600, 560000>>, <<100, 20000>>, <<100, 20000>>, <<100, 20000>>,
       <<100, 20000>>, <<100, 20000>> >>

\* The histories of p2 and p3: p2 has no rows, a month of 1500 or of 1600
\* claims at 70 per claim, or two months of impossible volume; p3 has a month
\* at 69 per claim or three months of impossible volume.
FusionPeers ==
    {<< <<>>, << <<1500, 103500>> >> >>,
     << << <<1500, 105000>> >>, << <<1500, 103500>> >> >>,
     << << <<1600, 112000>> >>, << <<1500, 103500>> >> >>,
     << << <<5000, 350000>>, <<5000, 350000>> >>, ThreeVolumeMonths >>}

\* p1 has any history of FusionMonths or the history ThreeKinds or
\* ModestThreeKinds. Beside the history ThreeKinds there may be a fourth
\* provider, with one month of impossible volume at 19.8 per claim and a total
\* below MIN_TOTAL_PAID.
FusionMonthlyInputs ==
    {MonthlyTable(<<h1, peers[1], peers[2]>>) :
        h1 \in SeqsUpTo(FusionMonths, MaxMonths) \cup {ThreeKinds, ModestThreeKinds},
        peers \in FusionPeers}
    \cup
    {MonthlyTable(<<ThreeKinds, << <<1500, 105000>> >>, h3, << <<5000, 99000>> >> >>) :
        h3 \in {<< <<1500, 103500>> >>, ThreeVolumeMonths}}
    \cup {ZscoreThree(3), ZscoreTen(1501)}

InitFusion ==
    /\ claims_file = EmptyFile
    /\ summaries_exist = TRUE
    /\ monthly_df \in FusionMonthlyInputs
    /\ procedure_df \in ScanProcedureInputs
    /\ FullSchema
    /\ InitOutputs

SpecFusion == InitFusion /\ [][Next]_vars

AllKinds ==
    {"VOLUME_IMPOSSIBILITY", "REVENUE_OUTLIER", "BILLING_SPIKE", "SUSPICIOUS_CONSISTENCY"}

\* C14: within one scan, a result whose flags are of all four kinds has a
\* strictly higher overall_score than every result whose flags are all of one
\* kind, however many they are and whatever their severities.
C14_FourKindsOutscoreOneKind ==
    \A run \in runs : \A i, j \in 1..Len(run.results) :
        (Kinds(run.results[i]) = AllKinds /\ Cardinality(Kinds(run.results[j])) = 1)
        => FLess(run.results[j].overall_score, run.results[i].overall_score)

\* Witness of C14: a scan returned a provider with flags of all four kinds and
\* a provider with three flags of one kind, all of severity 1.
C14_Witness ==
    \E run \in runs : \E i, j \in 1..Len(run.results) :
        /\ Kinds(run.results[i]) = AllKinds
        /\ Cardinality(Kinds(run.results[j])) = 1
        /\ Len(run.results[j].red_flags) = 3
        /\ Severities(run.results[j]) = {FOne}

\* The order in which scan_all merges the detectors' outputs (lines 82-91), and
\* all orders in which they could be merged.
CodeMergeOrder ==
    <<"VOLUME_IMPOSSIBILITY", "REVENUE_OUTLIER", "BILLING_SPIKE", "SUSPICIOUS_CONSISTENCY">>

MergeOrders == {m \in [1..4 -> AllKinds] : Range(m) = AllKinds}

\* The flags of one provider merged detector by detector in the order m.
RECURSIVE MergedInOrder(_, _)
MergedInOrder(flags, m) ==
    IF m = <<>> THEN <<>>
    ELSE SelectSeq(flags, LAMBDA f : f.flag_type = Head(m)) \o MergedInOrder(flags, Tail(m))

\* The list a scan with the given threshold returns from the scored providers
\* when the detectors' outputs are merged in the order m.
MergedScan(scored, m, threshold) ==
    ThresholdAndSort([i \in 1..Len(scored) |->
                         MakeResult(scored[i].npi, MergedInOrder(scored[i].red_flags, m))],
                     threshold)

\* The list of a run names the same providers in the same order with the same
\* scores as the list other.
SameRanking(run, other) ==
    /\ Len(other) = Len(run.results)
    /\ \A i \in 1..Len(other) :
          /\ other[i].npi = run.results[i].npi
          /\ other[i].overall_score = run.results[i].overall_score

\* Whatever the merge order, the providers scored in the order of a visit give
\* the list of the run.
SameRankingInOrder(run, scored) ==
    \A m \in MergeOrders : SameRanking(run, MergedScan(scored, m, run.threshold))

\* C18 (not met by the code): the detectors' outputs may be merged in any
\* order: whatever the merge order, and whatever order the iteration of the set
\* built in that merge order takes, the returned list names the same providers
\* in the same order with the same overall_score.
C18_MergeOrderImmaterial ==
    \A run \in runs :
        run.error = "none" =>
            \A scored \in ScoredInAnyOrder(monthly_df, procedure_df) :
                SameRankingInOrder(run, scored)

\* A table without the rows of provider npi.
WithoutNpi(df, npi) == SelectSeq(df, LAMBDA r : r.npi # npi)

\* C19: the rows of a provider whose paid amount summed over all months is
\* below 100,000 have no part in a scan: on the two tables without the rows of
\* such a provider, scan_all raises or returns exactly what it did with them
\* (the same providers, scores and flags, in the same order when it visits the
\* flagged providers in the same order).
C19_BelowMinimumRowsImmaterial ==
    \A run \in runs :
        \A npi \in Npis(monthly_df) \cup Npis(procedure_df) :
            TotalPaid(npi) < 100000 =>
                LET monthly   == WithoutNpi(monthly_df, npi)
                    procedure == WithoutNpi(procedure_df, npi)
                IN  /\ ScanError(monthly, procedure) = run.error
                    /\ run.error = "none" =>
                          /\ run.results \in ScanLists(monthly, procedure, run.threshold)
                          /\ ScanLists(monthly, procedure, run.threshold)
                                = ScanLists(monthly_df, procedure_df, run.threshold)

\* Witness of C19: a scan returned a provider with a REVENUE_OUTLIER flag from
\* tables that hold a provider below 100,000 with a month above the volume
\* ceiling, whose rows would change the output of the revenue detector.
C19_Witness ==
    \E run \in runs :
        /\ \E i \in 1..Len(run.results) : "REVENUE_OUTLIER" \in Kinds(run.results[i])
        /\ \E npi \in Npis(monthly_df) \ ResultNpis(run) :
              /\ TotalPaid(npi) < 100000
              /\ RowsAboveCeiling(npi) # {}
              /\ _detect_revenue_outliers(monthly_df)
                    # _detect_revenue_outliers(WithoutNpi(monthly_df, npi))

\* The two tables restricted to the providers whose paid amount summed over
\* all months is at least 100,000.
ScannedMonthly == SelectSeq(monthly_df, LAMBDA r : TotalPaid(r.npi) >= 100000)

ScannedProcedure == SelectSeq(procedure_df, LAMBDA r : TotalPaid(r.npi) >= 100000)

\* The flags a detector's output holds for a provider, none if it is not a key.
EmittedFor(flags, npi) == IF npi \in DOMAIN flags THEN flags[npi] ELSE <<>>

\* C20: the list scan_all returns holds at most one result per npi, and the
\* flags of every result are not empty and are exactly the flags the four
\* detectors emitted for that npi: those of the volume detector, then of the
\* revenue detector, then of the spike detector, then of the consistency
\* detector. A provider for which no detector emitted a flag is in no result.
C20_OneResultPerFlaggedEntity ==
    (\E run \in runs : run.error = "none") =>
        LET vf == _detect_volume_impossibility(ScannedMonthly)
            rf == _detect_revenue_outliers(ScannedMonthly)
            sf == _detect_billing_spikes(ScannedMonthly)
            cf == _detect_suspicious_consistency(ScannedProcedure)
            emitted == [npi \in Entities |->
                           EmittedFor(vf, npi) \o EmittedFor(rf, npi)
                           \o EmittedFor(sf, npi) \o EmittedFor(cf, npi)]
        IN  \A run \in runs :
                run.error = "none" =>
                    /\ \A i, j \in 1..Len(run.results) :
                          run.results[i].npi = run.results[j].npi => i = j
                    /\ \A i \in 1..Len(run.results) :
                          /\ run.results[i].red_flags # <<>>
                          /\ run.results[i].red_flags = emitted[run.results[i].npi]
                    /\ \A npi \in ResultNpis(run) : emitted[npi] # <<>>

\* Witness of C20: a scan of threshold 0 returned two providers, one of them
\* with flags of all four kinds, from tables that hold a third provider with
\* rows in both tables, a total of at least 100,000 and no result.
C20_Witness ==
    \E run \in runs :
        /\ run.threshold = FZero
        /\ Len(run.results) = 2
        /\ \E i \in 1..2 : Kinds(run.results[i]) = AllKinds
        /\ \E npi \in (Npis(monthly_df) \cap Npis(procedure_df)) \ ResultNpis(run) :
              TotalPaid(npi) >= 100000

\* The severity every flag of a kind is above: a flagged month has more than
\* 1500 of 4500 claims, a flagged z-score is above 3 of 10, a flagged month is
\* above 5 of 10 times the mean, a flagged ratio is above 0.9.
SeverityFloor(flag_type) ==
    CASE flag_type = "VOLUME_IMPOSSIBILITY"   -> FRat(1, 3)
      [] flag_type = "REVENUE_OUTLIER"        -> FRat(3, 10)
      [] flag_type = "BILLING_SPIKE"          -> FRat(1, 2)
      [] flag_type = "SUSPICIOUS_CONSISTENCY" -> FRat(9, 10)

\* C27 (not met by the code): every flag has a severity above the floor of its
\* kind, hence above 0.3; every result has an overall_score above 0.35; and a
\* scan with a threshold of at most 0.35, the default 0.3 included, returns
\* the list that a scan of the same tables with threshold 0.0 returns.
C27_LowThresholdsKeepEverything ==
    /\ \A f \in AllFlagsSeen :
          /\ FLess(SeverityFloor(f.flag_type), f.severity)
          /\ FLess(FRat(3, 10), f.severity)
    /\ \A run \in runs : \A i \in 1..Len(run.results) :
          FLess(FRat(7, 20), run.results[i].overall_score)
    /\ \A run, low \in runs :
          (/\ run.error = "none"
           /\ low.error = "none"
           /\ run.threshold = FZero
           /\ FLeq(low.threshold, FRat(7, 20)))
          => low.results = run.results

\* C28: a result whose flags include a SUSPICIOUS_CONSISTENCY flag and flags of
\* two or more other kinds has overall_score exactly 1.
C28_ConsistencyPlusTwoKindsScoresOne ==
    \A run \in runs : \A i \in 1..Len(run.results) :
        (/\ "SUSPICIOUS_CONSISTENCY" \in Kinds(run.results[i])
         /\ Cardinality(Kinds(run.results[i])) >= 3)
        => run.results[i].overall_score = FOne

\* Witness of C28: a scan returned a provider with a consistency flag and flags
\* of two other kinds, all of severity below 1, and a score of 1.
C28_Witness ==
    \E run \in runs : \E i \in 1..Len(run.results) :
        /\ "SUSPICIOUS_CONSISTENCY" \in Kinds(run.results[i])
        /\ Cardinality(Kinds(run.results[i])) = 3
        /\ \A f \in Range(run.results[i].red_flags) : FLess(f.severity, FOne)
        /\ run.results[i].overall_score = FOne

----------------------------------------------------------------------------
(* Inputs and specification for build_dossier.                             *)

\* Providers with rows in the claims file.
MaxPeers == 3

\* The rows <<specialty, billed amount>> of one provider: none; 100 in one row
\* or in two; a row without a specialty; a row without a specialty ahead of a
\* row with one; another specialty; the largest total; a total of zero; and
\* 100 in a row with a refund of 50 in a row without a specialty. Billed
\* amounts are of either sign.
DossierProfiles ==
    {<<>>,
     << <<"A", 100>> >>,
     << <<"A", 100>>, <<Null, -50>> >>,
     << <<"A", 50>>, <<"A", 50>> >>,
     << <<Null, 100>> >>,
     << <<Null, 30>>, <<"A", 70>> >>,
     << <<"B", 200>> >>,
     << <<"A", 300>> >>,
     << <<"A", 0>> >>}

\* The rows of one provider from its profile, with the columns the file has.
ClaimRows(columns, npi, profile) ==
    [i \in 1..Len(profile) |->
        [f \in {"npi"}
               \cup (IF SpecialtyCol(columns) \in columns THEN {"specialty"} ELSE {})
               \cup (IF AmountCol(columns) \in columns THEN {"billed_amount"} ELSE {}) |->
            IF f = "npi" THEN npi
            ELSE IF f = "specialty" THEN profile[i][1]
            ELSE profile[i][2]]]

RECURSIVE ClaimsTableFrom(_, _, _)
ClaimsTableFrom(columns, profiles, i) ==
    IF i > Len(profiles) THEN <<>>
    ELSE ClaimRows(columns, NpiAscending[i], profiles[i])
         \o ClaimsTableFrom(columns, profiles, i + 1)

\* The file with the given columns where p1, p2, ... have the given profiles.
ClaimsFile(columns, profiles) ==
    [columns |-> columns, rows |-> ClaimsTableFrom(columns, profiles, 1)]

\* Files with a specialty and an amount column, in either spelling, for every
\* choice of profiles; files with only one of the two columns, for two
\* providers; and the file of the HHS schema.
DossierFiles ==
    {ClaimsFile(columns, profiles) :
        columns \in {{"npi", "specialty", "billed_amount"}, {"npi", "SPECIALTY", "BILLED_AMT"}},
        profiles \in [1..MaxPeers -> DossierProfiles]}
    \cup
    {ClaimsFile(columns, << << <<"A", 100>> >>, << <<"A", 300>> >> >>) :
        columns \in {{"npi", "specialty"}, {"npi", "billed_amount"}}}
    \cup
    {HhsFile}

InitDossier ==
    /\ claims_file \in DossierFiles
    /\ summaries_exist = FALSE
    /\ monthly_df = <<>>
    /\ procedure_df = <<>>
    /\ FullSchema
    /\ InitOutputs

SpecDossier == InitDossier /\ [][Next]_vars

\* The rows of claims_file of the provider the dossier was asked for.
EntityRows == {i \in 1..Len(claims_file.rows) : claims_file.rows[i].npi = dossier.npi}

\* The file has a specialty and an amount column.
HasPeerColumns ==
    /\ {"specialty", "SPECIALTY"} \cap claims_file.columns # {}
    /\ {"billed_amount", "BILLED_AMT"} \cap claims_file.columns # {}

\* The rows of the entity that have a specialty value.
EntityNamedRows ==
    IF HasPeerColumns THEN {i \in EntityRows : claims_file.rows[i].specialty # Null} ELSE {}

\* The grouping key of the entity: the specialty of its first row that has one.
EntitySpecialty ==
    claims_file.rows[CHOOSE i \in EntityNamedRows : \A j \in EntityNamedRows : i <= j].specialty

\* The sum of billed_amount over the rows of claims_file whose index is in S.
BilledOver(S) ==
    LET f[k \in 0..Len(claims_file.rows)] ==
            IF k = 0 THEN 0
            ELSE f[k - 1] + (IF k \in S THEN claims_file.rows[k].billed_amount ELSE 0)
    IN  f[Len(claims_file.rows)]

\* The rows of provider npi that are of the entity's specialty, the peer
\* population, and a peer's total.
PeerRows(npi) ==
    {i \in 1..Len(claims_file.rows) :
        claims_file.rows[i].npi = npi /\ claims_file.rows[i].specialty = EntitySpecialty}

PeerPopulation == {npi \in Npis(claims_file.rows) : PeerRows(npi) # {}}

PeerTotal(npi) == BilledOver(PeerRows(npi))

\* The peers whose total is at most the entity's total.
PeersAtOrBelow == {npi \in PeerPopulation : PeerTotal(npi) <= BilledOver(EntityRows)}

\* C15 (not met by the code): when the peer comparison of a dossier has a
\* percentile, it is 100 * (peers whose total is <= the entity's total) /
\* peer_count, rounded to one decimal, with the entity itself among the peers
\* and among those counted; the entity whose total is above every other
\* peer's gets exactly 100.0.
C15_PercentileRank ==
    (dossier.called /\ dossier.error = "none"
        /\ "provider_percentile" \in DOMAIN dossier.value.peer_comparison) =>
        LET pc    == dossier.value.peer_comparison
            exact == Rat(100 * Cardinality(PeersAtOrBelow), Cardinality(PeerPopulation))
        IN  /\ pc.peer_count = Cardinality(PeerPopulation)
            /\ dossier.npi \in PeersAtOrBelow
            /\ 10 % pc.provider_percentile[2] = 0
            /\ RLeq(RAbs(RSub(pc.provider_percentile, exact)), <<1, 20>>)
            /\ (\A npi \in PeerPopulation \ {dossier.npi} :
                    PeerTotal(npi) < PeerTotal(dossier.npi))
               => pc.provider_percentile = <<100, 1>>

\* The entries of a peer comparison that are statistics.
StatisticFields ==
    {"peer_count", "peer_mean_billed", "peer_median_billed", "provider_percentile", "zscore"}

\* C16: when the entity has no specialty value, or no provider of the file has
\* rows of the entity's specialty, the peer comparison of the dossier is the
\* one entry "note" and has no peer_count, mean, median, percentile or zscore.
C16_UnavailableWithoutPeers ==
    (dossier.called /\ dossier.error = "none") =>
        ((EntityNamedRows = {} \/ PeerPopulation = {}) =>
            /\ DOMAIN dossier.value.peer_comparison = {"note"}
            /\ StatisticFields \cap DOMAIN dossier.value.peer_comparison = {})

\* Witness of C16: a dossier was built for a provider whose rows have no
\* specialty value, from a file with a specialty column in which other
\* providers have one, and its peer comparison is a note.
C16_Witness ==
    /\ dossier.called
    /\ dossier.error = "none"
    /\ HasPeerColumns
    /\ EntityNamedRows = {}
    /\ \E i \in 1..Len(claims_file.rows) : claims_file.rows[i].specialty # Null
    /\ "note" \in DOMAIN dossier.value.peer_comparison

\* C17: a call of build_dossier for an npi without rows in the file raises
\* ClickException and returns no Dossier.
C17_NotFoundRaises ==
    (dossier.called /\ EntityRows = {}) =>
        /\ dossier.error = "ClickException"
        /\ dossier.value = <<>>

\* Witness of C17: build_dossier was called for an npi without rows in a file
\* that has rows of other providers, and raised.
C17_Witness ==
    /\ dossier.called
    /\ EntityRows = {}
    /\ claims_file.rows # <<>>
    /\ dossier.error = "ClickException"

----------------------------------------------------------------------------
(* Further claims about the detectors and scan_all.                        *)

\* C21: every flag a detector emits, in a direct call or within a scan, has a
\* severity in [0,1], on monthly tables with claim counts >= 0 and paid amounts
\* of either sign and procedure tables with row counts >= 0.
C21_SeverityInUnitInterval ==
    \A f \in AllFlagsSeen : FLeq(FZero, f.severity) /\ FLeq(f.severity, FOne)

\* Witness of C21: a direct call of the spike detector, on a table with
\* negative paid amounts, gave a flag of severity 1 for a month of more than
\* ten times the mean.
C21_Witness ==
    /\ spike_flags.called
    /\ \E i \in 1..Len(monthly_df) : monthly_df[i].total_paid < 0
    /\ \E f \in FlagsIn(spike_flags.flags) :
          /\ f.severity = FOne
          /\ \E npi \in Npis(monthly_df) :
                /\ TotalPaid(npi) > 0
                /\ f.evidence.amount * MonthsOfHistory(npi) > 10 * TotalPaid(npi)
                /\ \E i \in MonthRows(npi) : monthly_df[i].total_paid = f.evidence.amount

----------------------------------------------------------------------------
(* Inputs and specification for tables that lack a column.                 *)

\* The rows of a table without the fields that are not among the columns.
WithColumns(df, columns) ==
    [i \in 1..Len(df) |-> [c \in DOMAIN df[i] \cap columns |-> df[i][c]]]

\* p1 has no rows, one ordinary month or the history ThreeKinds; p2 has no rows
\* or a month at 70 per claim; p3 has no rows, a month at 69 per claim or three
\* months of impossible volume.
ColumnsMonthlyInputs ==
    {MonthlyTable(<<h1, h2, h3>>) :
        h1 \in {<<>>, << <<1000, 100000>> >>, ThreeKinds},
        h2 \in {<<>>, << <<1500, 105000>> >>},
        h3 \in {<<>>, << <<1500, 103500>> >>, ThreeVolumeMonths}}

\* Every column, or every column but one.
ColumnSets(columns, droppable) == {columns} \cup {columns \ {c} : c \in droppable}

InitColumns ==
    /\ claims_file = EmptyFile
    /\ summaries_exist = TRUE
    /\ monthly_columns \in
          ColumnSets(MonthlyColumns, {"service_month", "total_claims", "total_paid"})
    /\ procedure_columns \in ColumnSets(ProcedureColumns, {"total_paid", "row_count"})
    /\ \E m \in ColumnsMonthlyInputs : monthly_df = WithColumns(m, monthly_columns)
    /\ \E p \in ScanProcedureInputs : procedure_df = WithColumns(p, procedure_columns)
    /\ InitOutputs

SpecColumns == InitColumns /\ [][Next]_vars

\* A table that is empty or lacks one of the needed columns.
Degraded(df, columns, needed) == df = <<>> \/ ~(needed \subseteq columns)

\* A direct call of a detector returned, and returned no flags if its table is
\* empty or lacks a column the detector reads.
DegradesToNoFlags(outcome, df, columns, needed) ==
    outcome.called =>
        /\ outcome.error = "none"
        /\ Degraded(df, columns, needed) => outcome.flags = EmptyDict

\* C22: a detector whose table is empty or lacks a column it reads yields no
\* flags, and every scan_all on a monthly table that is present completes, with
\* the flags of the other detectors when the procedure table is empty or lacks
\* a column.
C22_DetectorsDegrade ==
    /\ DegradesToNoFlags(volume_flags, monthly_df, monthly_columns,
                         {"npi", "service_month", "total_claims"})
    /\ DegradesToNoFlags(revenue_flags, monthly_df, monthly_columns,
                         {"npi", "total_paid", "total_claims"})
    /\ DegradesToNoFlags(spike_flags, monthly_df, monthly_columns,
                         {"npi", "service_month", "total_paid"})
    /\ DegradesToNoFlags(consistency_flags, procedure_df, procedure_columns,
                         {"npi", "total_paid", "row_count"})
    /\ \A run \in runs :
          /\ run.error = "none"
          /\ (/\ monthly_columns = MonthlyColumns
              /\ Degraded(procedure_df, procedure_columns, ProcedureColumns))
             => run.results \in ScanLists(monthly_df, <<>>, run.threshold)

----------------------------------------------------------------------------
(* Specification for the guards against division by zero: the inputs of    *)
(* the revenue, spike and consistency detectors and of build_dossier.      *)

InitGuards ==
    /\ \/ /\ claims_file = EmptyFile
          /\ summaries_exist = TRUE
          /\ monthly_df \in RevenueMonthlyInputs \cup SpikeMonthlyInputs
          /\ procedure_df = <<>>
       \/ /\ claims_file = EmptyFile
          /\ summaries_exist = TRUE
          /\ monthly_df = <<>>
          /\ procedure_df \in ConsistencyProcedureInputs
       \/ /\ claims_file \in DossierFiles
          /\ summaries_exist = FALSE
          /\ monthly_df = <<>>
          /\ procedure_df = <<>>
    /\ FullSchema
    /\ InitOutputs

SpecGuards == InitGuards /\ [][Next]_vars

\* The totals of the peers are not all the same.
PeerTotalsDiffer == \E a, b \in PeerPopulation : PeerTotal(a) # PeerTotal(b)

\* C23: no call raises ZeroDivisionError. The revenue detector flags no
\* provider with zero total claims and nobody when the MAD is zero; the spike
\* detector flags no provider whose months sum to zero; the consistency
\* detector flags only providers with at least 30 non-zero rows; a peer
\* comparison has a z-score exactly when there are two or more peers whose
\* totals differ.
C23_NoDivisionByZero ==
    /\ \A outcome \in {volume_flags, revenue_flags, spike_flags, consistency_flags} :
          outcome.error # "ZeroDivisionError"
    /\ \A run \in runs : run.error # "ZeroDivisionError"
    /\ dossier.error # "ZeroDivisionError"
    /\ revenue_flags.called =>
          /\ DOMAIN revenue_flags.flags \subseteq Population
          /\ (Population # {} /\ PopulationMad = FZero) => revenue_flags.flags = EmptyDict
    /\ spike_flags.called =>
          \A npi \in Npis(monthly_df) :
              TotalPaid(npi) = 0 => npi \notin DOMAIN spike_flags.flags
    /\ consistency_flags.called =>
          \A npi \in DOMAIN consistency_flags.flags :
              RowCountOver(NonZeroAmountRows(npi)) >= 30
    /\ (dossier.called /\ dossier.error = "none"
          /\ "peer_count" \in DOMAIN dossier.value.peer_comparison) =>
          ("zscore" \in DOMAIN dossier.value.peer_comparison
              <=> (Cardinality(PeerPopulation) >= 2 /\ PeerTotalsDiffer))

\* Witness of C23: the spike detector returned on a table where a provider has
\* three or more months that sum to zero.
C23_Witness ==
    /\ spike_flags.called
    /\ spike_flags.error = "none"
    /\ \E npi \in Npis(monthly_df) :
          /\ MonthsOfHistory(npi) >= 3
          /\ TotalPaid(npi) = 0
          /\ npi \notin DOMAIN spike_flags.flags

----------------------------------------------------------------------------
(* Further claims about build_dossier.                                     *)

\* C25: the dossier of an entity that has rows in a file of the HHS columns has
\* a peer comparison with a peer_count.
C25_HhsPeerComparison ==
    (dossier.called /\ dossier.error = "none" /\ claims_file.columns = HhsColumns) =>
        "peer_count" \in DOMAIN dossier.value.peer_comparison

====
